---- MODULE Spec2Model ----
(***************************************************************************)
(* Model of the dermbill billing optimizer (src/dermbill).                 *)
(*                                                                         *)
(* The rules engine (rules.py) is a library of pure functions.  The state  *)
(* is what a caller holds: the repair list it is building (repairs), the   *)
(* diagnosis list of the visit (diagnoses) and the record of the last call *)
(* it made (call: operation, arguments, returned value or exception).      *)
(* The reference provider (codes.py) is an object with state: db holds the *)
(* fields of a CPTCodeDatabase and excel_file the workbook it loads; the   *)
(* module globals that hold the lazily created singletons and the threads  *)
(* that call their accessors are globals, threads, constructed and reads.  *)
(* The LLM client (llm.py), the entity merge (entities.py) and the         *)
(* analyzer (analyzer.py) are functions of the note and of the responses   *)
(* of the language model, which are inputs.                                *)
(* There is one action per function or method; each applies it as the code *)
(* computes it to inputs drawn from bounded sets.                          *)
(*                                                                         *)
(* Numbers.  Lengths and diameters are Python floats (IEEE-754 binary64).  *)
(* They are modelled bit-exactly as binary fixed-point words (IntBits      *)
(* integer bits, FracBits fraction bits) that always hold a value with at  *)
(* most MantissaBits significant bits; addition is the exact sum rounded   *)
(* to nearest, ties to even, as the hardware does.  The wRVU values of the *)
(* rules engine's tables are carried in hundredths (0.82 is 82) and a      *)
(* product by an integer count is the product of the hundredths; the wRVU  *)
(* values of the reference workbook are floats.                            *)
(***************************************************************************)
EXTENDS Integers, Sequences, FiniteSets, TLC

VARIABLES repairs, diagnoses, call, excel_file, db, globals, threads,
          constructed, reads

\* What threads share: the module globals that hold the singletons, each
\* thread's position in the accessor or load() it is running, the number of
\* instances constructed of each singleton and the number of times the
\* workbook was opened.
shared == <<globals, threads, constructed, reads>>

\* The reference workbook on disk, the CPTCodeDatabase object and what
\* threads share.
services == <<excel_file, db, shared>>

vars == <<repairs, diagnoses, call, services>>

(***************************************************************************)
(* Bounds of the model.                                                    *)
(***************************************************************************)
MaxRepairs == 3
MaxNegative == 2
MaxCount == 17
MaxTagCount == 37
MaxBiopsy == 3
MaxLenTenths == 310
MaxDiamTenths == 45
MaxSiteLen == 3
MaxMmTenths == 80
MaxProcedures == 2
MaxDiagnoses == 2
MaxLines == 3
NumThreads == 2
MaxCalls == 2
MaxEntities == 2
MaxCodes == 2

(***************************************************************************)
(* IEEE-754 binary64 arithmetic on non-negative values from 2^-7 up to     *)
(* 2^IntBits, and zero.  A float is its exact value as a fixed-point word  *)
(* of three limbs of LimbBits bits, most significant first:                *)
(*     value = (w[1] * 2^(2*LimbBits) + w[2] * 2^LimbBits + w[3])          *)
(*             / 2^FracBits                                                *)
(* A word that is a float has at most MantissaBits significant bits.       *)
(***************************************************************************)
MantissaBits == 53

LimbBits == 23

FracBits == 60

IntBits == 3 * LimbBits - FracBits

RECURSIVE Pow2(_)
Pow2(k) == IF k = 0 THEN 1 ELSE 2 * Pow2(k - 1)

Base == Pow2(LimbBits)

FZero == <<0, 0, 0>>

\* float('inf'): the word above every finite float.
FInf == <<Base, 0, 0>>

\* The number of significant bits of n >= 0.
RECURSIVE BitLen(_)
BitLen(n) == IF n = 0 THEN 0 ELSE 1 + BitLen(n \div 2)

WordBitLen(w) ==
    IF w[1] > 0 THEN 2 * LimbBits + BitLen(w[1])
    ELSE IF w[2] > 0 THEN LimbBits + BitLen(w[2])
    ELSE BitLen(w[3])

\* Limbs that overflowed by a carry, carried upwards.
Normalize(w) ==
    LET l3 == w[3] % Base
        s2 == w[2] + (w[3] \div Base)
    IN  <<w[1] + (s2 \div Base), s2 % Base, l3>>

\* Round an exact word to MantissaBits significant bits, to nearest, ties to
\* even; inexact says that non-zero bits lie below the word.  The bits
\* dropped all lie in the last limb.
RoundWord(w, inexact) ==
    LET drop == WordBitLen(w) - MantissaBits
    IN  IF drop <= 0 THEN w
        ELSE LET unit == Pow2(drop)
                 low  == w[3] % unit
                 half == unit \div 2
                 odd  == (w[3] \div unit) % 2 = 1
                 up   == \/ low > half
                         \/ low = half /\ (inexact \/ odd)
             IN  Normalize(<<w[1], w[2],
                             w[3] - low + (IF up THEN unit ELSE 0)>>)

\* RoundWord with the word evaluated once (the singleton binds it as a value).
RoundNearestEven(w, inexact) ==
    CHOOSE r \in {RoundWord(v, inexact) : v \in {w}} : TRUE

\* The bits of the integer n, 0 <= n < 2^bits, most significant first.
RECURSIVE IntPart(_, _)
IntPart(n, bits) ==
    IF bits = 0 THEN <<>>
    ELSE Append(IntPart(n \div 2, bits - 1), n % 2)

\* The fraction bits of r / d, 0 <= r < d, by long division, followed by the
\* last remainder.
RECURSIVE FracPart(_, _, _)
FracPart(r, d, bits) ==
    IF bits = 0 THEN <<r>>
    ELSE <<(2 * r) \div d>> \o FracPart((2 * r) % d, d, bits - 1)

\* The limb whose bits are bits[from..to].
RECURSIVE Limb(_, _, _)
Limb(bits, from, to) ==
    IF to < from THEN 0
    ELSE 2 * Limb(bits, from, to - 1) + bits[to]

\* The float nearest to n / d: what the literal n/d (such as 2.5 for 25/10)
\* denotes, and what the float division n / d returns.
FromRatio(n, d) ==
    CHOOSE r \in
        {RoundNearestEven(
             <<Limb(bits, 1, LimbBits),
               Limb(bits, LimbBits + 1, 2 * LimbBits),
               Limb(bits, 2 * LimbBits + 1, 3 * LimbBits)>>,
             bits[3 * LimbBits + 1] # 0) :
         bits \in {IntPart(n \div d, IntBits)
                       \o FracPart(n % d, d, FracBits)}} : TRUE

\* a + b on floats: the exact sum, rounded.  (The singletons bind the
\* operands as values, so that each is evaluated once.)
FAdd(a, b) ==
    CHOOSE r \in
        {RoundNearestEven(
             Normalize(<<x[1] + y[1], x[2] + y[2], x[3] + y[3]>>), FALSE) :
         x \in {a}, y \in {b}} : TRUE

\* a <= b on floats.
FLe(a, b) ==
    \E x \in {a}, y \in {b} :
        \/ x[1] < y[1]
        \/ x[1] = y[1] /\ x[2] < y[2]
        \/ x[1] = y[1] /\ x[2] = y[2] /\ x[3] <= y[3]

\* sum(xs): Python's built-in, a left fold of + starting from 0.
RECURSIVE FSum(_)
FSum(xs) ==
    IF xs = <<>> THEN FZero
    ELSE FAdd(FSum(SubSeq(xs, 1, Len(xs) - 1)), xs[Len(xs)])

\* k * a for an integer k >= 0 and a float a: the exact product, rounded.
FMulInt(k, a) ==
    CHOOSE r \in
        {RoundNearestEven(Normalize(<<k * x[1], k * x[2], k * x[3]>>), FALSE) :
         x \in {a}} : TRUE

\* a / d for a float a and an integer d > 0: the quotient by short division,
\* limb by limb, rounded; a remainder makes the quotient inexact.
FDivInt(a, d) ==
    CHOOSE r \in
        {LET q1 == x[1] \div d
             r1 == x[1] % d
             q2 == (r1 * Base + x[2]) \div d
             r2 == (r1 * Base + x[2]) % d
             q3 == (r2 * Base + x[3]) \div d
             r3 == (r2 * Base + x[3]) % d
         IN  RoundNearestEven(<<q1, q2, q3>>, r3 # 0) :
         x \in {a}} : TRUE

\* A length or diameter written in centimetres with one decimal (2.5 is Cm(25)).
Cm(tenths) == FromRatio(tenths, 10)

\* A diameter or margin written in millimetres with one decimal.
Mm(tenths) == FromRatio(tenths, 10)

(***************************************************************************)
(* Strings: str.lower() and the substring test "term in s".                *)
(***************************************************************************)
UpperToLower ==
    [A |-> "a", B |-> "b", C |-> "c", D |-> "d", E |-> "e", F |-> "f",
     G |-> "g", H |-> "h", I |-> "i", J |-> "j", K |-> "k", L |-> "l",
     M |-> "m", N |-> "n", O |-> "o", P |-> "p", Q |-> "q", R |-> "r",
     S |-> "s", T |-> "t", U |-> "u", V |-> "v", W |-> "w", X |-> "x",
     Y |-> "y", Z |-> "z"]

RECURSIVE lower(_)
lower(s) ==
    IF Len(s) = 0 THEN ""
    ELSE LET c == SubSeq(s, 1, 1)
         IN  (IF c \in DOMAIN UpperToLower THEN UpperToLower[c] ELSE c)
                 \o lower(SubSeq(s, 2, Len(s)))

\* term in s
Contains(s, term) ==
    \E i \in 1..(Len(s) - Len(term) + 1) :
        SubSeq(s, i, i + Len(term) - 1) = term

\* any(term in s for term in terms)
AnyIn(terms, s) == \E k \in 1..Len(terms) : Contains(s, terms[k])

(***************************************************************************)
(* Enumerations.                                                           *)
(***************************************************************************)
RepairComplexity == {"simple", "intermediate", "complex"}

AnatomicGroup == {"GROUP_1", "GROUP_2", "GROUP_3"}

(***************************************************************************)
(* Tier resolution: the loop that ends get_excision_code and               *)
(* get_repair_code.  An entry is <<threshold, code, wRVU>>.                *)
(***************************************************************************)
\* A faulty variant: the comparison is strict, so a value equal to a bound
\* falls into the next tier.
RECURSIVE TierWalk_Faulty(_, _, _)
TierWalk_Faulty(value, codes, i) ==
    IF i > Len(codes)
    THEN <<codes[Len(codes)][2], codes[Len(codes)][3]>>
    ELSE IF FLe(value, codes[i][1]) /\ value # codes[i][1]
         THEN <<codes[i][2], codes[i][3]>>
         ELSE TierWalk_Faulty(value, codes, i + 1)

RECURSIVE TierWalk(_, _, _)
TierWalk(value, codes, i) ==
    IF i > Len(codes)
    THEN <<codes[Len(codes)][2], codes[Len(codes)][3]>>
    ELSE IF FLe(value, codes[i][1])
         THEN <<codes[i][2], codes[i][3]>>
         ELSE TierWalk(value, codes, i + 1)

ResolveTier(value, codes) ==
    CHOOSE r \in {TierWalk(v, codes, 1) : v \in {value}} : TRUE

(***************************************************************************)
(* G2211 eligibility.                                                      *)
(***************************************************************************)
CHRONIC_CONDITIONS ==
    <<"psoriasis", "eczema", "atopic dermatitis", "rosacea", "acne",
      "hidradenitis", "hidradenitis suppurativa", "alopecia", "vitiligo",
      "seborrheic dermatitis", "chronic urticaria", "lichen planus",
      "lichen sclerosus", "morphea", "scleroderma", "dermatomyositis",
      "lupus", "pemphigus", "pemphigoid", "epidermolysis bullosa",
      "ichthyosis", "xeroderma pigmentosum", "mycosis fungoides",
      "cutaneous lymphoma", "prurigo nodularis", "chronic pruritus">>

\* A faulty variant: the diagnosis is matched as written, not lower-cased.
RECURSIVE DiagnosisLoop_Faulty(_, _)
DiagnosisLoop_Faulty(ds, i) ==
    IF i > Len(ds) THEN FALSE
    ELSE IF AnyIn(CHRONIC_CONDITIONS, ds[i]) THEN TRUE
    ELSE DiagnosisLoop_Faulty(ds, i + 1)

\* The loop over the diagnoses, from the i-th on, and the return after it.
RECURSIVE DiagnosisLoop(_, _)
DiagnosisLoop(ds, i) ==
    IF i > Len(ds) THEN FALSE
    ELSE IF AnyIn(CHRONIC_CONDITIONS, lower(ds[i])) THEN TRUE
    ELSE DiagnosisLoop(ds, i + 1)

is_g2211_eligible(ds) == DiagnosisLoop(ds, 1)

(***************************************************************************)
(* Excision sizing.                                                        *)
(***************************************************************************)
\* A faulty variant: the margin is counted once.
calculate_excised_diameter_Faulty(lesion_diameter_mm, margin_mm) ==
    LET excised_mm == FAdd(lesion_diameter_mm, margin_mm)
    IN  FDivInt(excised_mm, 10)

calculate_excised_diameter(lesion_diameter_mm, margin_mm) ==
    LET excised_mm == FAdd(lesion_diameter_mm, FMulInt(2, margin_mm))
    IN  FDivInt(excised_mm, 10)

\* A faulty variant: the scalp counts as face.
face_terms_Faulty ==
    <<"face", "ear", "eyelid", "nose", "lip", "cheek", "chin",
      "forehead", "temple", "periorbital", "scalp">>

face_terms ==
    <<"face", "ear", "eyelid", "nose", "lip", "cheek", "chin",
      "forehead", "temple", "periorbital">>

is_face(anatomic_site) == AnyIn(face_terms, lower(anatomic_site))

MalignantFaceCodes ==
    <<<<Cm(5), "11640", 163>>, <<Cm(10), "11641", 212>>,
      <<Cm(20), "11642", 255>>, <<Cm(30), "11643", 308>>,
      <<Cm(40), "11644", 382>>, <<FInf, "11646", 532>>>>

MalignantTrunkCodes ==
    <<<<Cm(5), "11600", 159>>, <<Cm(10), "11601", 202>>,
      <<Cm(20), "11602", 221>>, <<Cm(30), "11603", 275>>,
      <<Cm(40), "11604", 318>>, <<FInf, "11606", 409>>>>

BenignFaceCodes ==
    <<<<Cm(5), "11440", 102>>, <<Cm(10), "11441", 149>>,
      <<Cm(20), "11442", 173>>, <<Cm(30), "11443", 222>>,
      <<Cm(40), "11444", 282>>, <<FInf, "11446", 382>>>>

BenignTrunkCodes ==
    <<<<Cm(5), "11400", 88>>, <<Cm(10), "11401", 125>>,
      <<Cm(20), "11402", 141>>, <<Cm(30), "11403", 179>>,
      <<Cm(40), "11404", 235>>, <<FInf, "11406", 303>>>>

\* A faulty variant: a benign lesion of the face is sized by the trunk table.
ExcisionTable_Faulty(anatomic_site, is_malignant) ==
    IF is_malignant
    THEN IF is_face(anatomic_site) THEN MalignantFaceCodes
         ELSE MalignantTrunkCodes
    ELSE BenignTrunkCodes

ExcisionTable(anatomic_site, is_malignant) ==
    IF is_malignant
    THEN IF is_face(anatomic_site) THEN MalignantFaceCodes
         ELSE MalignantTrunkCodes
    ELSE IF is_face(anatomic_site) THEN BenignFaceCodes
         ELSE BenignTrunkCodes

get_excision_code(excised_diameter_cm, anatomic_site, is_malignant) ==
    ResolveTier(excised_diameter_cm,
                ExcisionTable(anatomic_site, is_malignant))

(***************************************************************************)
(* Repair aggregation.                                                     *)
(***************************************************************************)
\* A faulty variant: the keyword list lacks "nasal" and "auricular".
group_2_terms_Faulty ==
    <<"face", "ear", "eyelid", "nose", "lip", "cheek", "chin",
      "forehead", "temple", "periorbital", "perioral", "mucous",
      "vermilion">>

group_2_terms ==
    <<"face", "ear", "eyelid", "nose", "lip", "cheek", "chin",
      "forehead", "temple", "periorbital", "perioral", "mucous",
      "vermilion", "nasal", "auricular">>

classify_anatomic_group(site) ==
    IF AnyIn(group_2_terms, lower(site)) THEN "GROUP_2" ELSE "GROUP_1"

SimpleFaceCodes ==
    <<<<Cm(25), "12011", 115>>, <<Cm(50), "12013", 145>>,
      <<Cm(75), "12014", 169>>, <<Cm(125), "12015", 217>>,
      <<Cm(200), "12016", 286>>, <<Cm(300), "12017", 339>>,
      <<FInf, "12018", 454>>>>

SimpleTrunkCodes ==
    <<<<Cm(25), "12001", 82>>, <<Cm(75), "12002", 114>>,
      <<Cm(125), "12004", 149>>, <<Cm(200), "12005", 179>>,
      <<Cm(300), "12006", 210>>, <<FInf, "12007", 273>>>>

IntermediateFaceCodes ==
    <<<<Cm(25), "12051", 227>>, <<Cm(50), "12052", 262>>,
      <<Cm(75), "12053", 322>>, <<Cm(125), "12054", 387>>,
      <<Cm(200), "12055", 491>>, <<Cm(300), "12056", 583>>,
      <<FInf, "12057", 684>>>>

IntermediateTrunkCodes ==
    <<<<Cm(25), "12031", 195>>, <<Cm(50), "12032", 246>>,
      <<Cm(75), "12034", 281>>, <<Cm(125), "12035", 350>>,
      <<Cm(200), "12036", 430>>, <<Cm(300), "12037", 507>>,
      <<FInf, "12038", 570>>>>

ComplexFaceCodes ==
    <<<<Cm(10), "13131", 364>>, <<Cm(25), "13132", 452>>,
      <<Cm(50), "13133", 579>>, <<Cm(75), "13151", 423>>,
      <<FInf, "13152", 561>>>>

ComplexTrunkCodes ==
    <<<<Cm(10), "13100", 260>>, <<Cm(25), "13101", 325>>,
      <<Cm(50), "13102", 425>>, <<FInf, "13120", 335>>>>

RepairTable(complexity, anatomic_group) ==
    IF complexity = "simple"
    THEN IF anatomic_group = "GROUP_2" THEN SimpleFaceCodes
         ELSE SimpleTrunkCodes
    ELSE IF complexity = "intermediate"
    THEN IF anatomic_group = "GROUP_2" THEN IntermediateFaceCodes
         ELSE IntermediateTrunkCodes
    ELSE IF anatomic_group = "GROUP_2" THEN ComplexFaceCodes
         ELSE ComplexTrunkCodes

get_repair_code(complexity, anatomic_group, total_length_cm) ==
    ResolveTier(total_length_cm, RepairTable(complexity, anatomic_group))

\* The key aggregate_repairs groups by.
RepairKey(repair) == <<repair.complexity, repair.anatomic_group>>

\* The groups dict after the first loop, as the sequence of its items
\* <<key, list of repairs>> in insertion order.
RECURSIVE GroupRepairs(_)
GroupRepairs(rs) ==
    IF rs = <<>> THEN <<>>
    ELSE CHOOSE g \in
        {IF \E k \in 1..Len(groups) : groups[k][1] = RepairKey(repair)
         THEN [k \in 1..Len(groups) |->
                  IF groups[k][1] = RepairKey(repair)
                  THEN <<groups[k][1], Append(groups[k][2], repair)>>
                  ELSE groups[k]]
         ELSE Append(groups, <<RepairKey(repair), <<repair>>>>) :
         groups \in {GroupRepairs(SubSeq(rs, 1, Len(rs) - 1))},
         repair \in {rs[Len(rs)]}} : TRUE

\* The lengths of a list of repairs, in order.
Lengths(group_repairs) ==
    [k \in 1..Len(group_repairs) |-> group_repairs[k].length_cm]

\* A faulty variant: the code is resolved from the first repair of the group
\* instead of the total.
AggregateGroup_Faulty(item) ==
    CHOOSE a \in
        {[complexity      |-> item[1][1],
          anatomic_group  |-> item[1][2],
          total_length_cm |-> total_length,
          code            |-> tier[1],
          wRVU            |-> tier[2]] :
         total_length \in {FSum(Lengths(item[2]))},
         tier \in {get_repair_code(item[1][1], item[1][2],
                                   item[2][1].length_cm)}} : TRUE

\* One iteration of the second loop: the AggregatedRepair of a dict item.
AggregateGroup(item) ==
    CHOOSE a \in
        {[complexity      |-> item[1][1],
          anatomic_group  |-> item[1][2],
          total_length_cm |-> total_length,
          code            |-> tier[1],
          wRVU            |-> tier[2]] :
         total_length \in {FSum(Lengths(item[2]))},
         tier \in {get_repair_code(item[1][1], item[1][2],
                                   FSum(Lengths(item[2])))}} : TRUE

aggregate_repairs(rs) ==
    CHOOSE results \in
        {[k \in 1..Len(groups) |-> AggregateGroup(groups[k])] :
         groups \in {GroupRepairs(rs)}} : TRUE

(***************************************************************************)
(* Destruction, biopsy and injection coding.  A line is                    *)
(* <<code, units, wRVU>>.                                                  *)
(***************************************************************************)
\* A faulty variant: the add-on units count the first lesion again.
get_ak_destruction_codes_Faulty(count) ==
    IF count <= 0 THEN <<>>
    ELSE IF count >= 15 THEN <<<<"17004", 1, 259>>>>
    ELSE IF count > 1
         THEN <<<<"17000", 1, 61>>, <<"17003", count, 9 * count>>>>
         ELSE <<<<"17000", 1, 61>>>>

get_ak_destruction_codes(count) ==
    IF count <= 0 THEN <<>>
    ELSE IF count >= 15 THEN <<<<"17004", 1, 259>>>>
    ELSE IF count > 1
         THEN <<<<"17000", 1, 61>>, <<"17003", count - 1, 9 * (count - 1)>>>>
         ELSE <<<<"17000", 1, 61>>>>

\* A faulty variant: the guard lets a count of zero through.
get_benign_destruction_codes_Faulty(count, is_wart_or_molluscum) ==
    IF count < 0 THEN <<>>
    ELSE IF is_wart_or_molluscum
    THEN IF count >= 15 THEN <<<<"17111", 1, 79>>>>
         ELSE <<<<"17110", 1, 52>>>>
    ELSE IF count > 15
         THEN LET additional_groups == (count - 15 + 9) \div 10
              IN  <<<<"11200", 1, 80>>,
                    <<"11201", additional_groups, 28 * additional_groups>>>>
         ELSE <<<<"11200", 1, 80>>>>

\* A faulty variant: the additional groups of ten are rounded down.
get_benign_destruction_codes_FaultyGroups(count, is_wart_or_molluscum) ==
    IF count <= 0 THEN <<>>
    ELSE IF is_wart_or_molluscum
    THEN IF count >= 15 THEN <<<<"17111", 1, 79>>>>
         ELSE <<<<"17110", 1, 52>>>>
    ELSE IF count > 15
         THEN LET additional_groups == (count - 15) \div 10
              IN  <<<<"11200", 1, 80>>,
                    <<"11201", additional_groups, 28 * additional_groups>>>>
         ELSE <<<<"11200", 1, 80>>>>

get_benign_destruction_codes(count, is_wart_or_molluscum) ==
    IF count <= 0 THEN <<>>
    ELSE IF is_wart_or_molluscum
    THEN IF count >= 15 THEN <<<<"17111", 1, 79>>>>
         ELSE <<<<"17110", 1, 52>>>>
    ELSE IF count > 15
         THEN LET additional_groups == (count - 15 + 9) \div 10
              IN  <<<<"11200", 1, 80>>,
                    <<"11201", additional_groups, 28 * additional_groups>>>>
         ELSE <<<<"11200", 1, 80>>>>

\* A faulty variant: the additional code counts the first biopsy again.
BiopsyFamily_Faulty(count, first, first_wRVU, additional, additional_wRVU) ==
    IF count > 0
    THEN IF count > 1
         THEN <<<<first, 1, first_wRVU>>,
                <<additional, count, additional_wRVU * count>>>>
         ELSE <<<<first, 1, first_wRVU>>>>
    ELSE <<>>

\* One family of get_biopsy_codes: what its block appends to codes.
BiopsyFamily(count, first, first_wRVU, additional, additional_wRVU) ==
    IF count > 0
    THEN IF count > 1
         THEN <<<<first, 1, first_wRVU>>,
                <<additional, count - 1, additional_wRVU * (count - 1)>>>>
         ELSE <<<<first, 1, first_wRVU>>>>
    ELSE <<>>

ShaveCodes(shave_count) == BiopsyFamily(shave_count, "11102", 64, "11103", 37)

PunchCodes(punch_count) == BiopsyFamily(punch_count, "11104", 81, "11105", 44)

IncisionalCodes(incisional_count) ==
    BiopsyFamily(incisional_count, "11106", 98, "11107", 54)

get_biopsy_codes(shave_count, punch_count, incisional_count) ==
    ShaveCodes(shave_count) \o PunchCodes(punch_count)
        \o IncisionalCodes(incisional_count)

\* A faulty variant: seven lesions fall into the upper tier.
get_il_injection_code_Faulty(lesion_count) ==
    IF lesion_count < 7 THEN <<"11900", 51>> ELSE <<"11901", 78>>

get_il_injection_code(lesion_count) ==
    IF lesion_count <= 7 THEN <<"11900", 51>> ELSE <<"11901", 78>>

(***************************************************************************)
(* NCCI edits and modifier logic.                                          *)
(***************************************************************************)
\* Python's None, the value of a pair that cannot be unbundled: a value that
\* is no modifier, neither "addon" nor "ok".
None == "None"

\* A faulty variant: the row of 99214 with 17000 asks for modifier 59.
NCCI_BUNDLES_Faulty ==
    (<<"99213", "17000">> :> "25") @@ (<<"99214", "17000">> :> "59")
        @@ (<<"99215", "17000">> :> "25") @@ (<<"99213", "11102">> :> "25")
        @@ (<<"99214", "11102">> :> "25") @@ (<<"99215", "11102">> :> "25")
        @@ (<<"99213", "11104">> :> "25") @@ (<<"99214", "11104">> :> "25")
        @@ (<<"99215", "11104">> :> "25")
        @@ (<<"12001", "11400">> :> None) @@ (<<"12001", "11401">> :> None)
        @@ (<<"17000", "17003">> :> "addon")

\* The dict keyed by (code1, code2).
NCCI_BUNDLES ==
    (<<"99213", "17000">> :> "25") @@ (<<"99214", "17000">> :> "25")
        @@ (<<"99215", "17000">> :> "25") @@ (<<"99213", "11102">> :> "25")
        @@ (<<"99214", "11102">> :> "25") @@ (<<"99215", "11102">> :> "25")
        @@ (<<"99213", "11104">> :> "25") @@ (<<"99214", "11104">> :> "25")
        @@ (<<"99215", "11104">> :> "25")
        @@ (<<"12001", "11400">> :> None) @@ (<<"12001", "11401">> :> None)
        @@ (<<"17000", "17003">> :> "addon")

\* A faulty variant: the pair is looked up in the order given only.
check_ncci_edit_Faulty(code1, code2) ==
    LET pair == <<code1, code2>>
    IN  IF pair \in DOMAIN NCCI_BUNDLES THEN NCCI_BUNDLES[pair]
        ELSE "ok"

check_ncci_edit(code1, code2) ==
    LET pair         == <<code1, code2>>
        reverse_pair == <<code2, code1>>
    IN  IF pair \in DOMAIN NCCI_BUNDLES THEN NCCI_BUNDLES[pair]
        ELSE IF reverse_pair \in DOMAIN NCCI_BUNDLES
             THEN NCCI_BUNDLES[reverse_pair]
             ELSE "ok"

em_codes ==
    <<"99202", "99203", "99204", "99205",
      "99211", "99212", "99213", "99214", "99215">>

\* x in list
InList(x, list) == \E k \in 1..Len(list) : list[k] = x

\* A faulty variant: without an NCCI row asking for 25 the answer is False.
RECURSIVE ProcedureLoop_Faulty(_, _, _)
ProcedureLoop_Faulty(em_code, procedure_codes, i) ==
    IF i > Len(procedure_codes) THEN FALSE
    ELSE IF check_ncci_edit(em_code, procedure_codes[i]) = "25" THEN TRUE
    ELSE ProcedureLoop_Faulty(em_code, procedure_codes, i + 1)

\* The loop over procedure_codes and the return after it.
RECURSIVE ProcedureLoop(_, _, _)
ProcedureLoop(em_code, procedure_codes, i) ==
    IF i > Len(procedure_codes) THEN Len(procedure_codes) > 0
    ELSE IF check_ncci_edit(em_code, procedure_codes[i]) = "25" THEN TRUE
    ELSE ProcedureLoop(em_code, procedure_codes, i + 1)

needs_modifier_25(em_code, procedure_codes) ==
    IF ~InList(em_code, em_codes) THEN FALSE
    ELSE ProcedureLoop(em_code, procedure_codes, 1)

\* A faulty variant: one leading character is stripped at most.
lstrip_Faulty(s, ch) ==
    IF Len(s) > 0 /\ SubSeq(s, 1, 1) = ch THEN SubSeq(s, 2, Len(s))
    ELSE s

\* s.lstrip(ch): s without its leading run of the character ch.
RECURSIVE lstrip(_, _)
lstrip(s, ch) ==
    IF Len(s) > 0 /\ SubSeq(s, 1, 1) = ch
    THEN lstrip(SubSeq(s, 2, Len(s)), ch)
    ELSE s

\* The dict of get_modifier_guidance, keyed by modifier.
guidance ==
    ("25" :>
        [name |-> "Significant, Separately Identifiable E/M",
         use_when |->
             "E/M represents substantial, separate work beyond procedure decision",
         document |-> "Clearly document E/M work separate from procedure",
         audit_risk |-> "HIGH - Most audited modifier"])
    @@ ("59" :>
        [name |-> "Distinct Procedural Service",
         use_when |-> "Different site, organ system, incision, or encounter",
         document |-> "Document distinct nature of each procedure",
         audit_risk |-> "MEDIUM-HIGH - CMS prefers X modifiers"])
    @@ ("XE" :>
        [name |-> "Separate Encounter",
         use_when |->
             "Service distinct because it occurred during separate encounter same day",
         document |-> "Document separate encounter times",
         audit_risk |-> "LOW - More specific than -59"])
    @@ ("XS" :>
        [name |-> "Separate Structure",
         use_when |-> "Different anatomic structure",
         document |-> "Document specific anatomic structures",
         audit_risk |-> "LOW"])
    @@ ("50" :>
        [name |-> "Bilateral Procedure",
         use_when |-> "Same procedure performed on both sides",
         document |-> "Document bilateral nature",
         audit_risk |-> "LOW"])

get_modifier_guidance(modifier) ==
    LET key == lstrip(modifier, "-")
    IN  IF key \in DOMAIN guidance THEN guidance[key]
        ELSE [name |-> "Unknown", audit_risk |-> "Unknown"]

(***************************************************************************)
(* The reference provider: CPTCodeDatabase (codes.py).                     *)
(***************************************************************************)
\* The sheets load() reads, in the order it reads them.
Sheets == <<"CPT_Codes", "Modifiers", "Category_Index">>

\* A workbook is the set of sheets it holds; None is no file at the path.
\* The rows of a sheet are those of the reference workbook, whatever file
\* holds it, and a dataframe is known by the sheet it was read from.
CPT_Master_Reference == "CPT_Codes/Modifiers/Category_Index"

ExcelFiles == {None, CPT_Master_Reference, "CPT_Codes/Modifiers", "CPT_Codes"}

HasSheet(file, sheet) == file # None /\ Contains(file, sheet)

\* CPTCodeDatabase.__init__
NewDatabase ==
    [_codes_df |-> None, _modifiers_df |-> None, _categories_df |-> None,
     _loaded |-> FALSE]

\* The outcome of a method: the object after it, the exception it raised
\* (None when it returned) and the value it returned.
Outcome(self, raised, ret) == [db |-> self, raised |-> raised, ret |-> ret]

\* A faulty variant: _loaded is set before the sheets are read.
load_Faulty(self, file) ==
    IF self._loaded THEN Outcome(self, None, None)
    ELSE IF file = None THEN Outcome(self, "FileNotFoundError", None)
    ELSE IF ~HasSheet(file, Sheets[1])
    THEN Outcome([self EXCEPT !._loaded = TRUE], "ValueError", None)
    ELSE IF ~HasSheet(file, Sheets[2])
    THEN Outcome([self EXCEPT !._codes_df = Sheets[1], !._loaded = TRUE],
                 "ValueError", None)
    ELSE IF ~HasSheet(file, Sheets[3])
    THEN Outcome([self EXCEPT !._codes_df = Sheets[1],
                              !._modifiers_df = Sheets[2],
                              !._loaded = TRUE],
                 "ValueError", None)
    ELSE Outcome([_codes_df |-> Sheets[1], _modifiers_df |-> Sheets[2],
                  _categories_df |-> Sheets[3], _loaded |-> TRUE],
                 None, None)

\* CPTCodeDatabase.load: read_excel raises ValueError for a sheet the
\* workbook lacks, after the sheets before it have been assigned.
load(self, file) ==
    IF self._loaded THEN Outcome(self, None, None)
    ELSE IF file = None THEN Outcome(self, "FileNotFoundError", None)
    ELSE IF ~HasSheet(file, Sheets[1])
    THEN Outcome(self, "ValueError", None)
    ELSE IF ~HasSheet(file, Sheets[2])
    THEN Outcome([self EXCEPT !._codes_df = Sheets[1]], "ValueError", None)
    ELSE IF ~HasSheet(file, Sheets[3])
    THEN Outcome([self EXCEPT !._codes_df = Sheets[1],
                              !._modifiers_df = Sheets[2]],
                 "ValueError", None)
    ELSE Outcome([_codes_df |-> Sheets[1], _modifiers_df |-> Sheets[2],
                  _categories_df |-> Sheets[3], _loaded |-> TRUE],
                 None, None)

\* The properties codes_df, modifiers_df and categories_df: load if
\* necessary, then return the field.
Property(self, file, field) ==
    IF ~self._loaded
    THEN LET loaded == load(self, file)
         IN  IF loaded.raised # None THEN loaded
             ELSE Outcome(loaded.db, None, loaded.db[field])
    ELSE Outcome(self, None, self[field])

codes_df(self, file) == Property(self, file, "_codes_df")

modifiers_df(self, file) == Property(self, file, "_modifiers_df")

categories_df(self, file) == Property(self, file, "_categories_df")

\* An empty cell of a numeric column, which pandas reads as NaN.
NaN == -1

\* The rows of the sheet CPT_Codes that matter to the lookups, in sheet
\* order: Code, wRVU (hundredths, or NaN), Add_On_Code and Related_Codes
\* (None is an empty cell).  17000 and 17003 carry the values rules.py
\* gives them.
CPT_Codes ==
    <<[Code |-> "17000", wRVU |-> 61, Add_On_Code |-> "No",
       Related_Codes |-> "17003, 17004"],
      [Code |-> "17003", wRVU |-> 9, Add_On_Code |-> "Yes",
       Related_Codes |-> "17000"],
      [Code |-> "11102", wRVU |-> 64, Add_On_Code |-> "no",
       Related_Codes |-> None],
      [Code |-> "J3301", wRVU |-> NaN, Add_On_Code |-> "YES",
       Related_Codes |-> None]>>

\* The rows of a dataframe.
Rows(df) == IF df = Sheets[1] THEN CPT_Codes ELSE <<>>

\* s.strip() and s.lstrip() for the blank.
strip(s) ==
    LET RECURSIVE rstrip(_)
        rstrip(t) ==
            IF Len(t) > 0 /\ SubSeq(t, Len(t), Len(t)) = " "
            THEN rstrip(SubSeq(t, 1, Len(t) - 1))
            ELSE t
    IN  rstrip(lstrip(s, " "))

\* s.split(","): the pieces of s between commas, current being the piece
\* under construction.
RECURSIVE split(_, _)
split(s, current) ==
    IF Len(s) = 0 THEN <<current>>
    ELSE IF SubSeq(s, 1, 1) = ","
    THEN <<current>> \o split(SubSeq(s, 2, Len(s)), "")
    ELSE split(SubSeq(s, 2, Len(s)), current \o SubSeq(s, 1, 1))

\* Optional[CodeLookupResponse]: a response has the fields below; the
\* None that get_code returns is the record with no field but code.
NoResponse == [code |-> None]

\* A faulty variant: a miss raises.
get_code_Faulty(self, file, code) ==
    LET df == codes_df(self, file)
    IN  IF df.raised # None THEN Outcome(df.db, df.raised, None)
        ELSE LET rows  == Rows(df.ret)
                 match == {i \in 1..Len(rows) : rows[i].Code = strip(code)}
             IN  IF match = {} THEN Outcome(df.db, "KeyError", None)
                 ELSE LET row == rows[CHOOSE i \in match :
                                          \A j \in match : i <= j]
                      IN  Outcome(df.db, None,
                              [code |-> row.Code,
                               wRVU |-> IF row.wRVU # NaN
                                        THEN FromRatio(row.wRVU, 100)
                                        ELSE FZero,
                               is_addon |-> lower(row.Add_On_Code) = "yes",
                               related_codes |-> row.Related_Codes])

\* CPTCodeDatabase.get_code: the first row whose Code is the stripped code.
get_code(self, file, code) ==
    LET df == codes_df(self, file)
    IN  IF df.raised # None THEN Outcome(df.db, df.raised, None)
        ELSE LET rows  == Rows(df.ret)
                 match == {i \in 1..Len(rows) : rows[i].Code = strip(code)}
             IN  IF match = {} THEN Outcome(df.db, None, NoResponse)
                 ELSE LET row == rows[CHOOSE i \in match :
                                          \A j \in match : i <= j]
                      IN  Outcome(df.db, None,
                              [code |-> row.Code,
                               wRVU |-> IF row.wRVU # NaN
                                        THEN FromRatio(row.wRVU, 100)
                                        ELSE FZero,
                               is_addon |-> lower(row.Add_On_Code) = "yes",
                               related_codes |-> row.Related_Codes])

\* CPTCodeDatabase.get_wRVU
get_wRVU(self, file, code) ==
    LET code_info == CHOOSE o \in {get_code(self, file, code)} : TRUE
    IN  IF code_info.raised # None THEN code_info
        ELSE Outcome(code_info.db, None,
                     IF code_info.ret # NoResponse THEN code_info.ret.wRVU
                     ELSE FZero)

\* CPTCodeDatabase.is_addon_code
is_addon_code(self, file, code) ==
    LET code_info == CHOOSE o \in {get_code(self, file, code)} : TRUE
    IN  IF code_info.raised # None THEN code_info
        ELSE Outcome(code_info.db, None,
                     IF code_info.ret # NoResponse
                     THEN code_info.ret.is_addon
                     ELSE FALSE)

\* CPTCodeDatabase.get_related_codes
get_related_codes(self, file, code) ==
    LET code_info == CHOOSE o \in {get_code(self, file, code)} : TRUE
    IN  IF code_info.raised # None THEN code_info
        ELSE Outcome(code_info.db, None,
                     IF \/ code_info.ret = NoResponse
                        \/ code_info.ret.related_codes \in {None, ""}
                     THEN <<>>
                     ELSE LET parts == split(code_info.ret.related_codes, "")
                          IN  [i \in 1..Len(parts) |-> strip(parts[i])])

\* a * 1.5 on floats: the exact product 3a/2, rounded.  (Half of the float
\* 3a is exact: its last bit lies above the last bit of the word.)
FMulThreeHalves(a) ==
    CHOOSE r \in
        {RoundNearestEven(
             Normalize(<<t[1] \div 2,
                         (t[1] % 2) * (Base \div 2) + t[2] \div 2,
                         (t[2] % 2) * (Base \div 2) + t[3] \div 2>>),
             t[3] % 2 # 0) :
         t \in {Normalize(<<3 * x[1], 3 * x[2], 3 * x[3]>>) : x \in {a}}} :
        TRUE

\* The integer nearest to 100 x for a float x, ties to even: the hundredths
\* of the decimal that round(x, 2) rounds correctly to.
Hundredths(x) ==
    LET w     == CHOOSE v \in {Normalize(<<100 * y[1], 100 * y[2],
                                            100 * y[3]>>) : y \in {x}} : TRUE
        point == Pow2(FracBits - 2 * LimbBits)
        whole == w[1] \div point
        frac  == w[1] % point
        half  == point \div 2
        up    == \/ frac > half
                 \/ frac = half /\ (w[2] > 0 \/ w[3] > 0 \/ whole % 2 = 1)
    IN  whole + (IF up THEN 1 ELSE 0)

\* round(x, 2)
round2(x) == FromRatio(Hundredths(x), 100)

\* A faulty variant: every line counts once, whatever its units.
TotalLoop_Faulty(self, file, codes, total) ==
    LET RECURSIVE Loop(_, _, _)
        Loop(obj, i, sum) ==
            IF i > Len(codes) THEN Outcome(obj, None, round2(sum))
            ELSE LET base == CHOOSE o \in {get_wRVU(obj, file, codes[i].code)} :
                                 TRUE
                 IN  IF base.raised # None THEN base
                     ELSE Loop(base.db, i + 1,
                               FAdd(sum,
                                    IF codes[i].modifier = "50"
                                    THEN FMulThreeHalves(base.ret)
                                    ELSE base.ret))
    IN  Loop(self, 1, total)

\* The loop of calculate_total_wRVU over the lines, from the running total.
TotalLoop(self, file, codes, total) ==
    LET RECURSIVE Loop(_, _, _)
        Loop(obj, i, sum) ==
            IF i > Len(codes) THEN Outcome(obj, None, round2(sum))
            ELSE LET base == CHOOSE o \in {get_wRVU(obj, file, codes[i].code)} :
                                 TRUE
                 IN  IF base.raised # None THEN base
                     ELSE Loop(base.db, i + 1,
                               FAdd(sum,
                                    FMulInt(codes[i].units,
                                            IF codes[i].modifier = "50"
                                            THEN FMulThreeHalves(base.ret)
                                            ELSE base.ret)))
    IN  Loop(self, 1, total)

\* CPTCodeDatabase.calculate_total_wRVU
calculate_total_wRVU(self, file, codes) == TotalLoop(self, file, codes, FZero)

(***************************************************************************)
(* Entities extracted from a note (entities.py).                           *)
(***************************************************************************)
\* ExtractedEntities()
NoEntities ==
    [diagnoses |-> <<>>, procedures |-> <<>>, anatomic_sites |-> <<>>,
     measurements |-> <<>>, medications |-> <<>>,
     time_documentation |-> None, raw_entities |-> <<>>]

\* A faulty variant: items are compared as written.
unique_lower_Faulty(items) ==
    LET RECURSIVE Loop(_, _, _)
        Loop(i, seen, result) ==
            IF i > Len(items) THEN result
            ELSE IF items[i] \notin seen
            THEN Loop(i + 1, seen \cup {items[i]}, Append(result, items[i]))
            ELSE Loop(i + 1, seen, result)
    IN  Loop(1, {}, <<>>)

\* unique_lower of merge_entities: the loop over the items with the set
\* seen and the list result.
unique_lower(items) ==
    LET RECURSIVE Loop(_, _, _)
        Loop(i, seen, result) ==
            IF i > Len(items) THEN result
            ELSE IF lower(items[i]) \notin seen
            THEN Loop(i + 1, seen \cup {lower(items[i])},
                      Append(result, items[i]))
            ELSE Loop(i + 1, seen, result)
    IN  Loop(1, {}, <<>>)

\* x or y on Optional[str]: None and "" are false.
Or(x, y) == IF x \notin {None, ""} THEN x ELSE y

\* merge_entities
merge_entities(llm_entities, regex_entities) ==
    [diagnoses |->
         unique_lower(llm_entities.diagnoses \o regex_entities.diagnoses),
     procedures |->
         unique_lower(llm_entities.procedures \o regex_entities.procedures),
     anatomic_sites |->
         unique_lower(llm_entities.anatomic_sites
                          \o regex_entities.anatomic_sites),
     measurements |->
         llm_entities.measurements \o regex_entities.measurements,
     medications |->
         unique_lower(llm_entities.medications \o regex_entities.medications),
     time_documentation |->
         Or(llm_entities.time_documentation,
            regex_entities.time_documentation),
     raw_entities |-> llm_entities.raw_entities]

(***************************************************************************)
(* The LLM client (llm.py).  A response of the model is what _call_llm and *)
(* _parse_json_response make of it: the call raises, the text is not JSON, *)
(* or the text parses to data.                                             *)
(***************************************************************************)
\* d.get(key, default) on a JSON object.
get(d, key, default) == IF key \in DOMAIN d THEN d[key] ELSE default

\* The except branch of analyze_current_billing.
BillingError(e) ==
    [codes |-> <<>>, total_wRVU |-> 0,
     documentation_gaps |-> <<"Error analyzing billing: " \o e>>]

\* sum(c.wRVU * c.units for c in codes), wRVU in hundredths.
RECURSIVE SumOfCodes(_)
SumOfCodes(codes) ==
    IF codes = <<>> THEN 0
    ELSE SumOfCodes(SubSeq(codes, 1, Len(codes) - 1))
             + codes[Len(codes)].wRVU * codes[Len(codes)].units

\* BillingCode(code=c["code"], wRVU=float(c.get("wRVU", 0)),
\* units=int(c.get("units", 1))): the exception it raises, or None.  The
\* model validates wRVU >= 0 and units >= 1.
BillingCodeError(c) ==
    IF "code" \notin DOMAIN c THEN "'code'"
    ELSE IF get(c, "wRVU", 0) < 0 \/ get(c, "units", 1) < 1
    THEN "validation error for BillingCode"
    ELSE None

BillingCode(c) ==
    [code |-> c.code, wRVU |-> get(c, "wRVU", 0), units |-> get(c, "units", 1)]

\* LLMClient.analyze_current_billing, from the response on.
analyze_current_billing(response) ==
    IF response.kind = "raises" THEN BillingError("API error")
    ELSE IF response.kind = "text"
    THEN BillingError("Failed to parse JSON from LLM response")
    ELSE LET data == response.data
             cs   == get(data, "codes", <<>>)
             bad  == {i \in 1..Len(cs) : BillingCodeError(cs[i]) # None}
         IN  IF bad # {}
             THEN BillingError(BillingCodeError(
                      cs[CHOOSE i \in bad : \A j \in bad : i <= j]))
             ELSE LET codes == [i \in 1..Len(cs) |-> BillingCode(cs[i])]
                      total == get(data, "total_wRVU", SumOfCodes(codes))
                  IN  IF total < 0
                      THEN BillingError("validation error for CurrentBilling")
                      ELSE [codes |-> codes,
                            total_wRVU |-> total,
                            documentation_gaps |->
                                get(data, "documentation_gaps", <<>>)]

\* The notes of the model and what extract_entities_regex returns for them
\* (the pattern functions of entities.py applied to these texts).
Notes ==
    {"", "Acne follow-up, doing well on tretinoin.",
     "Shave biopsy of 5 mm lesion on the nose. Total time 25 minutes."}

extract_entities_regex(note_text) ==
    IF note_text = "Acne follow-up, doing well on tretinoin."
    THEN [NoEntities EXCEPT !.diagnoses = <<"Acne">>,
                            !.medications = <<"tretinoin">>]
    ELSE IF note_text =
            "Shave biopsy of 5 mm lesion on the nose. Total time 25 minutes."
    THEN [NoEntities EXCEPT
              !.procedures = <<"Shave biopsy">>,
              !.anatomic_sites = <<"nose">>,
              !.measurements =
                  <<[type |-> "size", value |-> 5, unit |-> "mm",
                     context |->
                         "Shave biopsy of 5 mm lesion on the nose. Total "]>>,
              !.time_documentation = "Total time 25 minutes"]
    ELSE NoEntities

\* The replacement fields of ENTITY_EXTRACTION_PROMPT, in the order
\* str.format meets them: the braces of "{type, value, unit, context}" and
\* of "{note_text}".
ENTITY_EXTRACTION_PROMPT == <<"type, value, unit, context", "note_text">>

\* template.format(**kwargs): KeyError on the first field that is not among
\* the keyword arguments.
format(template, kwargs) ==
    LET unknown == {i \in 1..Len(template) : template[i] \notin DOMAIN kwargs}
    IN  IF unknown # {}
        THEN [raised |-> "KeyError", ret |-> None]
        ELSE [raised |-> None,
              ret |-> [i \in 1..Len(template) |-> kwargs[template[i]]]]

\* get_extraction_prompt
get_extraction_prompt(note_text) ==
    format(ENTITY_EXTRACTION_PROMPT, [note_text |-> note_text])

\* A JSON value that extract_entities tests with isinstance.
Json(kind, value) == [json |-> kind, value |-> value]

\* The measurements of a response as a list of dicts: a dict is wrapped, a
\* value that is no list is dropped, an element that is no dict becomes {}.
Measurements(measurements) ==
    IF measurements.json = "object" THEN <<measurements.value>>
    ELSE IF measurements.json # "array" THEN <<>>
    ELSE [i \in 1..Len(measurements.value) |->
             IF measurements.value[i].json = "object"
             THEN measurements.value[i].value
             ELSE <<>>]

\* The try block of extract_entities and its except branch.
LlmEntities(response) ==
    IF response.kind # "json" THEN NoEntities
    ELSE LET data == response.data
         IN  [diagnoses |-> get(data, "diagnoses", <<>>),
              procedures |-> get(data, "procedures", <<>>),
              anatomic_sites |-> get(data, "anatomic_sites", <<>>),
              measurements |->
                  Measurements(get(data, "measurements",
                                   Json("array", <<>>))),
              medications |-> get(data, "medications", <<>>),
              time_documentation |-> get(data, "time_documentation", None),
              raw_entities |-> <<>>]

\* LLMClient.extract_entities: the prompt is built before the try block.
extract_entities(note_text, response) ==
    LET prompt == get_extraction_prompt(note_text)
    IN  IF prompt.raised # None
        THEN [raised |-> prompt.raised, ret |-> None]
        ELSE [raised |-> None,
              ret |-> merge_entities(LlmEntities(response),
                                     extract_entities_regex(note_text))]

(***************************************************************************)
(* The analyzer (analyzer.py): the four steps of analyze.                  *)
(***************************************************************************)
\* The parameters, after self, of the methods analyze calls by position.
Parameters ==
    [extract_entities |-> <<"note_text">>,
     analyze_current_billing |-> <<"note_text", "entities", "corpus_context">>,
     identify_enhancements |-> <<"note_text", "entities", "corpus_context">>,
     identify_opportunities |->
         <<"note_text", "entities", "scenario_content", "corpus_context">>]

\* The positional arguments analyze passes at each of its four calls.
Arguments ==
    [extract_entities |-> <<"note_text">>,
     analyze_current_billing |-> <<"note_text", "entities", "corpus_context">>,
     identify_enhancements |->
         <<"note_text", "entities", "current_billing", "corpus_context">>,
     identify_opportunities |->
         <<"note_text", "entities", "scenario_content", "corpus_context">>]

\* A call by position raises TypeError unless the method takes as many
\* arguments as it is given (none of these parameters has a default).
Binds(method) == Len(Arguments[method]) = Len(Parameters[method])

\* DocumentationEnhancements(...)
DocumentationEnhancements(enhancements) ==
    [type |-> "DocumentationEnhancements", enhancements |-> enhancements]

\* LLMClient.identify_enhancements, from the response on: it returns the
\* tuple (CurrentBilling, DocumentationEnhancements), also on failure.
identify_enhancements(response) ==
    LET failed ==
            [type |-> "tuple",
             items |-> <<[codes |-> <<>>, total_wRVU |-> 0,
                          documentation_gaps |-> <<"Error">>],
                         DocumentationEnhancements(<<>>)>>]
    IN  IF response.kind # "json" THEN failed
        ELSE LET current_billing ==
                     analyze_current_billing(
                         [kind |-> "json",
                          data |-> get(response.data, "current_billing",
                                       <<>>)])
             IN  IF /\ Len(current_billing.documentation_gaps) > 0
                    /\ Contains(current_billing.documentation_gaps[1],
                                "Error analyzing billing")
                 THEN failed
                 ELSE [type |-> "tuple",
                       items |-> <<current_billing,
                                   DocumentationEnhancements(
                                       get(response.data, "enhancements",
                                           <<>>))>>]

\* LLMClient.identify_opportunities, from the response on.
identify_opportunities(response) ==
    [type |-> "FutureOpportunities",
     opportunities |-> IF response.kind # "json" THEN <<>>
                       ELSE get(response.data, "opportunities", <<>>)]

\* The gap analyze adds for G2211: the diagnoses are eligible, G2211 is not
\* among the codes and one of 99212 to 99215 is.
WithG2211Gap(entities, current_billing) ==
    IF /\ is_g2211_eligible(entities.diagnoses)
       /\ \A i \in 1..Len(current_billing.codes) :
             current_billing.codes[i].code # "G2211"
       /\ \E i \in 1..Len(current_billing.codes) :
             current_billing.codes[i].code
                 \in {"99212", "99213", "99214", "99215"}
    THEN [current_billing EXCEPT !.documentation_gaps =
              Append(@, "G2211 (chronic condition add-on, +0.33 wRVU) may be applicable - ensure chronic condition is documented")]
    ELSE current_billing

\* What analyze has done: the object of its database, the exception it
\* raised, the steps it called in order and the result it returned.
Analysis(self, raised, steps, ret) ==
    [db |-> self, raised |-> raised, steps |-> steps, ret |-> ret]

\* AnalysisResult(**fields): the model validates the type of each field.
AnalysisResult(self, steps, fields) ==
    IF fields.documentation_enhancements.type # "DocumentationEnhancements"
    THEN Analysis(self, "ValidationError", steps, None)
    ELSE Analysis(self, None, steps, fields)

\* DermBillAnalyzer.analyze with the database self.code_db and the
\* responses of the model to the four prompts.  (Scenario matching and the
\* rule files only feed text into the prompts.)
analyze(self, file, note_text, responses) ==
    LET step1 == extract_entities(note_text, responses.extraction)
    IN  IF ~Binds("extract_entities")
        THEN Analysis(self, "TypeError", <<"extract_entities">>, None)
        ELSE IF step1.raised # None
        THEN Analysis(self, step1.raised, <<"extract_entities">>, None)
        ELSE
    LET entities == step1.ret
        context  == load(self, file)
    IN  IF context.raised # None
        THEN Analysis(context.db, context.raised, <<"extract_entities">>,
                      None)
        ELSE IF ~Binds("analyze_current_billing")
        THEN Analysis(context.db, "TypeError",
                      <<"extract_entities", "analyze_current_billing">>, None)
        ELSE
    LET current_billing ==
            WithG2211Gap(entities, analyze_current_billing(responses.billing))
    IN  IF ~Binds("identify_enhancements")
        THEN Analysis(context.db, "TypeError",
                      <<"extract_entities", "analyze_current_billing",
                        "identify_enhancements">>, None)
        ELSE
    LET doc_enhancements == identify_enhancements(responses.enhancements)
    IN  IF ~Binds("identify_opportunities")
        THEN Analysis(context.db, "TypeError",
                      <<"extract_entities", "analyze_current_billing",
                        "identify_enhancements", "identify_opportunities">>,
                      None)
        ELSE AnalysisResult(context.db,
                 <<"extract_entities", "analyze_current_billing",
                   "identify_enhancements", "identify_opportunities">>,
                 [entities |-> entities,
                  current_billing |-> current_billing,
                  documentation_enhancements |-> doc_enhancements,
                  future_opportunities |->
                      identify_opportunities(responses.opportunities),
                  original_note |-> note_text])

(***************************************************************************)
(* Inputs.                                                                 *)
(***************************************************************************)
Counts == (0 - MaxNegative)..MaxCount

TagCounts == (0 - MaxNegative)..MaxTagCount

BiopsyCounts == (0 - 1)..MaxBiopsy

SiteAlphabet == {"e", "a", "r", "E", "A", "R"}

RECURSIVE ShortStrings(_)
ShortStrings(n) ==
    IF n = 0 THEN {""}
    ELSE LET shorter == ShortStrings(n - 1)
         IN  shorter \cup {s \o c : s \in shorter, c \in SiteAlphabet}

SampleSites ==
    {"", "left nasal ala", "left forearm", "trunk", "scalp", "Nose",
     "upper LIP", "right cheek", "chin", "Forehead", "temple",
     "periorbital", "perioral", "mucous membrane", "vermilion border",
     "auricular", "FACE", "eyelid", "neck", "left hand", "back"}

Sites == SampleSites \cup ShortStrings(MaxSiteLen)

RepairLengths == {Cm(2), Cm(21), Cm(25), Cm(30)}

\* The complexity and site of a repair and the group its caller files it
\* under: the dataclass takes any group, whatever the site.
RepairKinds ==
    {<<"simple", "trunk", "GROUP_1">>, <<"simple", "nose", "GROUP_2">>,
     <<"complex", "trunk", "GROUP_1">>, <<"complex", "nose", "GROUP_1">>}

RepairInfo ==
    {[length_cm |-> length_cm, complexity |-> kind[1],
      anatomic_site |-> kind[2], anatomic_group |-> kind[3]] :
     length_cm \in RepairLengths, kind \in RepairKinds}

\* Code strings: the codes of the NCCI rows, E/M codes without a row, codes
\* the table does not know and the empty string.
NcciCodes ==
    {"99213", "99214", "99215", "17000", "11102", "11104", "12001", "11400",
     "11401", "17003", "99202", "99212", "99216", "11200", ""}

ProcedureCodes == {"17000", "11102", "12001", "11200", "99213"}

RECURSIVE ListsOf(_, _)
ListsOf(items, n) ==
    IF n = 0 THEN {<<>>}
    ELSE LET shorter == ListsOf(items, n - 1)
         IN  shorter \cup {Append(list, item) :
                              list \in shorter, item \in items}

\* Modifier strings: the known modifiers, bare and with leading dashes, and
\* strings the table does not know (other case, inner or trailing dash,
\* leading blank, only dashes, the empty string).
Modifiers ==
    {"25", "59", "XE", "XS", "50", "-25", "-59", "-XE", "-XS", "-50",
     "--25", "26", "-26", "xe", "25-", "2-5", " 25", "-", "--", "", "X"}

\* Diagnosis strings: chronic conditions inside longer descriptions and in
\* capitals, descriptions without a chronic term, a truncated term and the
\* empty string.
Diagnoses ==
    {"chronic plaque psoriasis", "seasonal rhinitis",
     "acute contact dermatitis, resolved", "Atopic Dermatitis",
     "ACNE vulgaris", "hidradenitis suppurativa", "psoriasi", "wart",
     "Systemic Lupus erythematosus", ""}

(***************************************************************************)
(* The caller: one action per library function.  A call is made when no    *)
(* result is outstanding; Return hands the result back.                    *)
(***************************************************************************)
Idle == call.op = "none"

CallAkDestruction ==
    /\ Idle
    /\ \E count \in Counts :
          call' = [op |-> "get_ak_destruction_codes",
                   count |-> count,
                   ret |-> get_ak_destruction_codes(count)]
    /\ UNCHANGED <<repairs, diagnoses, services>>

CallBenignDestruction ==
    /\ Idle
    /\ \E count \in TagCounts, is_wart_or_molluscum \in BOOLEAN :
          call' = [op |-> "get_benign_destruction_codes",
                   count |-> count,
                   is_wart_or_molluscum |-> is_wart_or_molluscum,
                   ret |-> get_benign_destruction_codes(
                               count, is_wart_or_molluscum)]
    /\ UNCHANGED <<repairs, diagnoses, services>>

CallBiopsy ==
    /\ Idle
    /\ \E shave_count \in BiopsyCounts, punch_count \in BiopsyCounts,
          incisional_count \in BiopsyCounts :
          call' = [op |-> "get_biopsy_codes",
                   shave_count |-> shave_count,
                   punch_count |-> punch_count,
                   incisional_count |-> incisional_count,
                   ret |-> get_biopsy_codes(shave_count, punch_count,
                                            incisional_count)]
    /\ UNCHANGED <<repairs, diagnoses, services>>

CallIlInjection ==
    /\ Idle
    /\ \E lesion_count \in Counts :
          call' = [op |-> "get_il_injection_code",
                   lesion_count |-> lesion_count,
                   ret |-> get_il_injection_code(lesion_count)]
    /\ UNCHANGED <<repairs, diagnoses, services>>

CallClassify ==
    /\ Idle
    /\ \E site \in Sites :
          call' = [op |-> "classify_anatomic_group",
                   site |-> site,
                   ret |-> classify_anatomic_group(site)]
    /\ UNCHANGED <<repairs, diagnoses, services>>

CallRepairCode ==
    /\ Idle
    /\ \E complexity \in RepairComplexity, anatomic_group \in AnatomicGroup,
          tenths \in 0..MaxLenTenths :
          call' = [op |-> "get_repair_code",
                   complexity |-> complexity,
                   anatomic_group |-> anatomic_group,
                   total_length_cm |-> Cm(tenths),
                   ret |-> get_repair_code(complexity, anatomic_group,
                                           Cm(tenths))]
    /\ UNCHANGED <<repairs, diagnoses, services>>

CallExcisionCode ==
    /\ Idle
    /\ \E tenths \in 0..MaxDiamTenths, anatomic_site \in SampleSites,
          is_malignant \in BOOLEAN :
          call' = [op |-> "get_excision_code",
                   excised_diameter_cm |-> Cm(tenths),
                   anatomic_site |-> anatomic_site,
                   is_malignant |-> is_malignant,
                   ret |-> get_excision_code(Cm(tenths), anatomic_site,
                                             is_malignant)]
    /\ UNCHANGED <<repairs, diagnoses, services>>

CallExcisedDiameter ==
    /\ Idle
    /\ \E lesion_tenths \in 0..MaxMmTenths, margin_tenths \in 0..MaxMmTenths :
          call' = [op |-> "calculate_excised_diameter",
                   lesion_diameter_mm |-> Mm(lesion_tenths),
                   margin_mm |-> Mm(margin_tenths),
                   ret |-> calculate_excised_diameter(
                               Mm(lesion_tenths), Mm(margin_tenths))]
    /\ UNCHANGED <<repairs, diagnoses, services>>

CallNcciEdit ==
    /\ Idle
    /\ \E code1 \in NcciCodes, code2 \in NcciCodes :
          call' = [op |-> "check_ncci_edit",
                   code1 |-> code1,
                   code2 |-> code2,
                   ret |-> check_ncci_edit(code1, code2)]
    /\ UNCHANGED <<repairs, diagnoses, services>>

CallNeedsModifier25 ==
    /\ Idle
    /\ \E em_code \in NcciCodes,
          procedure_codes \in ListsOf(ProcedureCodes, MaxProcedures) :
          call' = [op |-> "needs_modifier_25",
                   em_code |-> em_code,
                   procedure_codes |-> procedure_codes,
                   ret |-> needs_modifier_25(em_code, procedure_codes)]
    /\ UNCHANGED <<repairs, diagnoses, services>>

CallModifierGuidance ==
    /\ Idle
    /\ \E modifier \in Modifiers :
          call' = [op |-> "get_modifier_guidance",
                   modifier |-> modifier,
                   ret |-> get_modifier_guidance(modifier)]
    /\ UNCHANGED <<repairs, diagnoses, services>>

\* The caller adds a repair to the list it will have aggregated.
AddRepair ==
    /\ Idle
    /\ Len(repairs) < MaxRepairs
    /\ \E repair \in RepairInfo : repairs' = Append(repairs, repair)
    /\ UNCHANGED <<call, diagnoses, services>>

CallAggregateRepairs ==
    /\ Idle
    /\ call' = [op |-> "aggregate_repairs",
                repairs |-> repairs,
                ret |-> aggregate_repairs(repairs)]
    /\ UNCHANGED <<repairs, diagnoses, services>>

\* The caller adds a diagnosis to the list of the visit.
AddDiagnosis ==
    /\ Idle
    /\ Len(diagnoses) < MaxDiagnoses
    /\ \E diagnosis \in Diagnoses : diagnoses' = Append(diagnoses, diagnosis)
    /\ UNCHANGED <<repairs, call, services>>

\* The function reads the list; it assigns to no element of it.
CallG2211Eligible ==
    /\ Idle
    /\ call' = [op |-> "is_g2211_eligible",
                diagnoses |-> diagnoses,
                ret |-> is_g2211_eligible(diagnoses)]
    /\ UNCHANGED <<repairs, diagnoses, services>>

\* Codes to look up: rows of the sheet, bare and padded with blanks, and
\* codes the sheet does not hold.
LookupCodes ==
    {"17000", "17003", "11102", "J3301", " 17000", "17003  ", "99999",
     "1700", "17 000", ""}

\* Lines (code, units, modifier) of a bill.
Lines ==
    [code : {"17000", "99999"}, units : {1, 2}, modifier : {None, "50"}]
        \cup {[code |-> " 17003", units |-> 1, modifier |-> "25"]}

DatabaseFields == {"_codes_df", "_modifiers_df", "_categories_df"}

\* The workbook is replaced, removed or put in place.
ReplaceFile ==
    /\ Idle
    /\ \E file \in ExcelFiles \ {excel_file} : excel_file' = file
    /\ UNCHANGED <<repairs, diagnoses, call, db, shared>>

\* A method of db is called: out is its outcome.
Method(op, args, out) ==
    /\ call' = [op |-> op, args |-> args, raised |-> out.raised,
                ret |-> out.ret]
    /\ db' = out.db
    /\ UNCHANGED <<repairs, diagnoses, excel_file, shared>>

CallLoad ==
    /\ Idle
    /\ Method("load", <<>>, load(db, excel_file))

CallProperty ==
    /\ Idle
    /\ \E field \in DatabaseFields :
          Method("property", <<field>>, Property(db, excel_file, field))

CallGetCode ==
    /\ Idle
    /\ \E code \in LookupCodes :
          Method("get_code", <<code>>, get_code(db, excel_file, code))

CallGetWRVU ==
    /\ Idle
    /\ \E code \in LookupCodes :
          Method("get_wRVU", <<code>>, get_wRVU(db, excel_file, code))

CallIsAddonCode ==
    /\ Idle
    /\ \E code \in LookupCodes :
          Method("is_addon_code", <<code>>,
                 is_addon_code(db, excel_file, code))

CallGetRelatedCodes ==
    /\ Idle
    /\ \E code \in LookupCodes :
          Method("get_related_codes", <<code>>,
                 get_related_codes(db, excel_file, code))

CallCalculateTotal ==
    /\ Idle
    /\ \E codes \in ListsOf(Lines, MaxLines) :
          Method("calculate_total_wRVU", <<codes>>,
                 calculate_total_wRVU(db, excel_file, codes))

\* The lazily initialised singletons: accessor and the global it fills
\* (codes.py, scenarios.py, llm.py, api.py).
Accessors ==
    [get_code_database |-> "_db_instance",
     get_scenario_matcher |-> "_matcher_instance",
     get_llm_client |-> "_llm_client",
     get_analyzer |-> "_analyzer"]

\* The None of a global; instances are numbered from 1 as constructed.
NoInstance == 0

Threads == 1..NumThreads

IdleThread == [pc |-> "idle", accessor |-> None, local |-> NoInstance, calls |-> 0]

At(t, pc) == threads[t].pc = pc

Goto(t, pc) == threads' = [threads EXCEPT ![t].pc = pc]

\* if <global> is None:
TestGlobal(t, accessor) ==
    /\ threads' = [threads EXCEPT ![t] =
                      [pc |-> IF globals[Accessors[accessor]] = NoInstance
                              THEN "construct" ELSE "return",
                       accessor |-> accessor, local |-> NoInstance,
                       calls |-> threads[t].calls]]
    /\ UNCHANGED <<globals, constructed>>

\* A thread enters an accessor and tests the global.
EnterAccessor(t) ==
    /\ At(t, "idle")
    /\ \E accessor \in DOMAIN Accessors : TestGlobal(t, accessor)
    /\ UNCHANGED <<repairs, diagnoses, call, excel_file, db, reads>>

\* The right-hand side of the assignment: the constructor runs.
Construct(t) ==
    /\ At(t, "construct")
    /\ \E accessor \in {threads[t].accessor} :
          /\ constructed' =
                 [constructed EXCEPT ![accessor] = constructed[accessor] + 1]
          /\ threads' = [threads EXCEPT ![t].pc = "assign",
                                        ![t].local = constructed[accessor] + 1]
    /\ UNCHANGED <<repairs, diagnoses, call, excel_file, db, globals, reads>>

\* <global> = <the new instance>
AssignGlobal(t) ==
    /\ At(t, "assign")
    /\ globals' = [globals EXCEPT ![Accessors[threads[t].accessor]] =
                      threads[t].local]
    /\ Goto(t, "return")
    /\ UNCHANGED <<repairs, diagnoses, call, excel_file, db, constructed,
                   reads>>

\* return <global>: the caller holds what the global holds now.
ReturnGlobal(t) ==
    /\ At(t, "return")
    /\ threads' = [threads EXCEPT ![t].pc = "done",
                                  ![t].local =
                                      globals[Accessors[threads[t].accessor]]]
    /\ UNCHANGED <<repairs, diagnoses, call, excel_file, db, globals,
                   constructed, reads>>

\* The caller drops the instance it received and goes on to its next call.
Release(t) ==
    /\ At(t, "done") \/ At(t, "loaded")
    /\ threads[t].calls + 1 < MaxCalls
    /\ threads' = [threads EXCEPT ![t] =
                      [IdleThread EXCEPT !.calls = threads[t].calls + 1]]
    /\ UNCHANGED <<repairs, diagnoses, call, excel_file, db, globals,
                   constructed, reads>>

\* A thread enters load() of the shared database and tests _loaded.
EnterLoad(t) ==
    /\ At(t, "idle")
    /\ Goto(t, IF db._loaded THEN "loaded" ELSE "exists")
    /\ UNCHANGED <<repairs, diagnoses, call, excel_file, db, globals,
                   constructed, reads>>

\* The rest of load(): the file is opened and read unless it is missing.
\* The thread tested _loaded when it entered, whatever _loaded is by now.
ReadFile(t) ==
    /\ At(t, "exists")
    /\ reads <= NumThreads
    /\ \E out \in {load([db EXCEPT !._loaded = FALSE], excel_file)} :
          db' = [out.db EXCEPT !._loaded = db._loaded \/ out.db._loaded]
    /\ reads' = reads + (IF excel_file # None THEN 1 ELSE 0)
    /\ Goto(t, "loaded")
    /\ UNCHANGED <<repairs, diagnoses, call, excel_file, globals, constructed>>

\* Names of diagnoses as the two extractions may spell them.
DiagnosisNames == {"Acne", "acne", "wart"}

\* What an extraction finds besides diagnoses.
Findings ==
    {[procedures |-> <<>>, anatomic_sites |-> <<>>, measurements |-> <<>>,
      medications |-> <<>>, time_documentation |-> None,
      raw_entities |-> <<>>],
     [procedures |-> <<"Biopsy">>, anatomic_sites |-> <<"nose", "Nose">>,
      measurements |-> <<[type |-> "size", value |-> 5, unit |-> "mm"]>>,
      medications |-> <<"Tretinoin">>, time_documentation |-> "25 minutes",
      raw_entities |-> <<"biopsy of nose">>],
     [procedures |-> <<"biopsy", "Excision">>, anatomic_sites |-> <<"NOSE">>,
      measurements |-> <<[type |-> "size", value |-> 5, unit |-> "mm"],
                         [type |-> "count", value |-> 3, unit |-> ""]>>,
      medications |-> <<"tretinoin", "Kenalog">>, time_documentation |-> "",
      raw_entities |-> <<>>],
     [procedures |-> <<"excision">>, anatomic_sites |-> <<"cheek">>,
      measurements |-> <<>>, medications |-> <<>>,
      time_documentation |-> "30 min", raw_entities |-> <<"cheek">>]}

\* The ExtractedEntities an extraction may return.
Entities ==
    {[diagnoses |-> d] @@ f :
         d \in ListsOf(DiagnosisNames, MaxEntities), f \in Findings}

CallMergeEntities ==
    /\ Idle
    /\ \E llm_entities \in Entities, regex_entities \in Entities :
          call' = [op |-> "merge_entities",
                   llm_entities |-> llm_entities,
                   regex_entities |-> regex_entities,
                   ret |-> merge_entities(llm_entities, regex_entities)]
    /\ UNCHANGED <<repairs, diagnoses, services>>

\* The code objects a billing response may list: complete, without units,
\* without code, with a negative wRVU, with no units.
ResponseCodes ==
    {[code |-> "99214", wRVU |-> 192, units |-> 1],
     [code |-> "17003", wRVU |-> 9, units |-> 2],
     [code |-> "11102", wRVU |-> 64],
     [wRVU |-> 61, units |-> 1],
     [code |-> "17000", wRVU |-> -61, units |-> 1],
     [code |-> "17000", wRVU |-> 61, units |-> 0]}

\* The totals a billing response may declare.
DeclaredTotals == {0, 192, 345, -1}

\* The responses to the billing prompt.
BillingResponses ==
    {[kind |-> "raises"], [kind |-> "text"]}
        \cup {[kind |-> "json", data |-> [codes |-> cs]] :
                 cs \in ListsOf(ResponseCodes, MaxCodes)}
        \cup {[kind |-> "json",
               data |-> [codes |-> cs, total_wRVU |-> total,
                         documentation_gaps |-> <<"no site documented">>]] :
                 cs \in ListsOf(ResponseCodes, MaxCodes),
                 total \in DeclaredTotals}
        \cup {[kind |-> "json", data |-> [documentation_gaps |-> <<>>]]}

CallAnalyzeCurrentBilling ==
    /\ Idle
    /\ \E response \in BillingResponses :
          call' = [op |-> "analyze_current_billing",
                   response |-> response,
                   ret |-> analyze_current_billing(response)]
    /\ UNCHANGED <<repairs, diagnoses, services>>

\* The responses to the extraction prompt.
ExtractionResponses ==
    {[kind |-> "raises"], [kind |-> "text"],
     [kind |-> "json", data |-> [diagnoses |-> <<"acne", "Rosacea">>]],
     [kind |-> "json",
      data |-> [diagnoses |-> <<>>, procedures |-> <<"shave biopsy">>,
                anatomic_sites |-> <<"Nose">>,
                measurements |->
                    Json("object", [type |-> "size", value |-> 5,
                                    unit |-> "mm", context |-> "lesion"]),
                medications |-> <<>>,
                time_documentation |-> "25 minutes"]],
     [kind |-> "json",
      data |-> [procedures |-> <<"Excision">>,
                measurements |->
                    Json("array",
                         <<Json("object", [type |-> "margin", value |-> 2,
                                           unit |-> "mm", context |-> ""]),
                           Json("string", "5 mm")>>),
                time_documentation |-> ""]],
     [kind |-> "json",
      data |-> [medications |-> <<"Tretinoin">>,
                measurements |-> Json("string", "none")]]}

CallExtractEntities ==
    /\ Idle
    /\ \E note_text \in Notes, response \in ExtractionResponses :
       \E out \in {extract_entities(note_text, response)} :
          call' = [op |-> "extract_entities",
                   note_text |-> note_text,
                   response |-> response,
                   raised |-> out.raised,
                   ret |-> out.ret]
    /\ UNCHANGED <<repairs, diagnoses, services>>

\* Responses to the prompts of steps 2, 3 and 4 of an analysis.
AnalysisBillingResponses ==
    {[kind |-> "raises"],
     [kind |-> "json",
      data |-> [codes |-> <<[code |-> "99214", wRVU |-> 192, units |-> 1]>>,
                total_wRVU |-> 192, documentation_gaps |-> <<>>]],
     [kind |-> "json",
      data |-> [codes |-> <<[code |-> "11102", wRVU |-> 64, units |-> 1]>>]]}

EnhancementResponses ==
    {[kind |-> "text"],
     [kind |-> "json",
      data |-> [current_billing |->
                    [codes |-> <<[code |-> "99214", wRVU |-> 192,
                                  units |-> 1]>>],
                enhancements |-> <<"document lesion size">>]],
     [kind |-> "json", data |-> [enhancements |-> <<>>]]}

OpportunityResponses ==
    {[kind |-> "raises"],
     [kind |-> "json", data |-> [opportunities |-> <<"biopsy of the lesion">>]],
     [kind |-> "json", data |-> [opportunities |-> <<>>]]}

CallAnalyze ==
    /\ Idle
    /\ \E note_text \in Notes,
          responses \in [extraction : ExtractionResponses,
                         billing : AnalysisBillingResponses,
                         enhancements : EnhancementResponses,
                         opportunities : OpportunityResponses] :
       \E out \in {analyze(db, excel_file, note_text, responses)} :
          /\ call' = [op |-> "analyze",
                      note_text |-> note_text,
                      responses |-> responses,
                      raised |-> out.raised,
                      steps |-> out.steps,
                      ret |-> out.ret]
          /\ db' = out.db
    /\ UNCHANGED <<repairs, diagnoses, excel_file, shared>>

Return ==
    /\ ~Idle
    /\ call' = [op |-> "none"]
    /\ UNCHANGED <<repairs, diagnoses, services>>

Init ==
    /\ repairs = <<>>
    /\ diagnoses = <<>>
    /\ call = [op |-> "none"]
    /\ excel_file = CPT_Master_Reference
    /\ db = NewDatabase
    /\ globals = [g \in {Accessors[a] : a \in DOMAIN Accessors} |-> NoInstance]
    /\ threads = [t \in Threads |-> IdleThread]
    /\ constructed = [a \in DOMAIN Accessors |-> 0]
    /\ reads = 0

\* The rules that take counts, sites and sizes.
NextRules ==
    \/ CallAkDestruction
    \/ CallBenignDestruction
    \/ CallBiopsy
    \/ CallIlInjection
    \/ CallClassify
    \/ CallRepairCode
    \/ CallExcisionCode
    \/ Return

Spec == Init /\ [][NextRules]_vars

\* Building a repair list and aggregating it.
NextRepairs ==
    \/ AddRepair
    \/ CallAggregateRepairs
    \/ Return

SpecRepairs == Init /\ [][NextRepairs]_vars

\* Measuring an excision.
NextMeasure ==
    \/ CallExcisedDiameter
    \/ Return

SpecMeasure == Init /\ [][NextMeasure]_vars

\* NCCI edits and modifiers.
NextModifiers ==
    \/ CallNcciEdit
    \/ CallNeedsModifier25
    \/ CallModifierGuidance
    \/ Return

SpecModifiers == Init /\ [][NextModifiers]_vars

\* Building the diagnosis list of a visit and testing it for G2211.
NextDiagnoses ==
    \/ AddDiagnosis
    \/ CallG2211Eligible
    \/ Return

SpecDiagnoses == Init /\ [][NextDiagnoses]_vars

\* The life of a CPTCodeDatabase while its workbook comes and goes.
NextDatabase ==
    \/ ReplaceFile
    \/ CallLoad
    \/ CallProperty
    \/ CallGetCode
    \/ Return

SpecDatabase == Init /\ [][NextDatabase]_vars

\* Threads that call the accessors of the singletons and load().
NextThreads ==
    \E t \in Threads :
        \/ EnterAccessor(t)
        \/ Construct(t)
        \/ AssignGlobal(t)
        \/ ReturnGlobal(t)
        \/ Release(t)
        \/ EnterLoad(t)
        \/ ReadFile(t)

SpecThreads == Init /\ [][NextThreads]_vars

\* Lookups and totals on a CPTCodeDatabase.
NextLookups ==
    \/ CallGetCode
    \/ CallGetWRVU
    \/ CallIsAddonCode
    \/ CallGetRelatedCodes
    \/ CallCalculateTotal
    \/ Return

SpecLookups == Init /\ [][NextLookups]_vars

\* Merging the entities of the two extractions.
NextEntities ==
    \/ CallMergeEntities
    \/ Return

SpecEntities == Init /\ [][NextEntities]_vars

\* Calls to the LLM client and the analysis built on them.
NextLlm ==
    \/ CallExtractEntities
    \/ CallAnalyzeCurrentBilling
    \/ CallAnalyze
    \/ Return

SpecLlm == Init /\ [][NextLlm]_vars

(***************************************************************************)
(* Properties.                                                             *)
(***************************************************************************)
\* The codes and the units of a list of lines.
CodesOf(lines) == {lines[k][1] : k \in 1..Len(lines)}

RECURSIVE TotalUnits(_)
TotalUnits(lines) ==
    IF lines = <<>> THEN 0
    ELSE lines[1][2] + TotalUnits(Tail(lines))

\* C1: get_ak_destruction_codes(count) is empty for count <= 0, the single
\* line (17000, 1 unit) for count = 1, the two lines (17000, 1 unit) and
\* (17003, count - 1 units, 0.09 x (count - 1)) for 2 <= count <= 14, and the
\* single flat line (17004, 1 unit) for count >= 15; from 1 to 14 the units
\* add up to count.
C1_AkDestructionTiers ==
    call.op = "get_ak_destruction_codes" =>
        LET count == call.count
            ret   == call.ret
        IN  /\ count <= 0 => ret = <<>>
            /\ count = 1 =>
                  /\ Len(ret) = 1
                  /\ ret[1][1] = "17000" /\ ret[1][2] = 1
            /\ (2 <= count /\ count <= 14) =>
                  /\ Len(ret) = 2
                  /\ ret[1][1] = "17000" /\ ret[1][2] = 1
                  /\ ret[2][1] = "17003" /\ ret[2][2] = count - 1
                  /\ ret[2][3] = 9 * (count - 1)
            /\ count >= 15 =>
                  /\ Len(ret) = 1
                  /\ ret[1][1] = "17004" /\ ret[1][2] = 1
                  /\ CodesOf(ret) \cap {"17000", "17003"} = {}
            /\ (1 <= count /\ count <= 14) => TotalUnits(ret) = count

\* Fourteen lesions: the first code and thirteen add-on units.
C1_Witness ==
    /\ call.op = "get_ak_destruction_codes"
    /\ call.count = 14
    /\ Len(call.ret) = 2
    /\ call.ret[2][2] = 13

\* C2: for count <= 0, get_ak_destruction_codes and
\* get_benign_destruction_codes (both families) return the empty list, and
\* in get_biopsy_codes a family whose count is <= 0 contributes no line,
\* whatever the other two counts are.
C2_NothingForNoLesions ==
    /\ (call.op = "get_ak_destruction_codes" /\ call.count <= 0)
           => call.ret = <<>>
    /\ (call.op = "get_benign_destruction_codes" /\ call.count <= 0)
           => call.ret = <<>>
    /\ call.op = "get_biopsy_codes" =>
          /\ call.shave_count <= 0 =>
                CodesOf(call.ret) \cap {"11102", "11103"} = {}
          /\ call.punch_count <= 0 =>
                CodesOf(call.ret) \cap {"11104", "11105"} = {}
          /\ call.incisional_count <= 0 =>
                CodesOf(call.ret) \cap {"11106", "11107"} = {}

\* Punch biopsies only: the shave and incisional families add nothing.
C2_Witness ==
    /\ call.op = "get_biopsy_codes"
    /\ call.shave_count = 0
    /\ call.punch_count = 2
    /\ call.incisional_count = 0 - 1
    /\ CodesOf(call.ret) = {"11104", "11105"}

\* C3: for lesion_count <= 0 get_il_injection_code yields no billable code
\* and no positive wRVU.
C3_NoInjectionForNoLesions ==
    (call.op = "get_il_injection_code" /\ call.lesion_count <= 0) =>
        \/ call.ret = <<>>
        \/ call.ret[2] <= 0

\* The (complexity, anatomic_group) pairs present in a repair list, the
\* repairs of one pair in input order, and the sum of their lengths.
PairsOf(rs) ==
    {<<rs[i].complexity, rs[i].anatomic_group>> : i \in 1..Len(rs)}

WithPair(rs, complexity, anatomic_group) ==
    SelectSeq(rs, LAMBDA r : /\ r.complexity = complexity
                             /\ r.anatomic_group = anatomic_group)

SumOfLengths(rs) == FSum([k \in 1..Len(rs) |-> rs[k].length_cm])

\* C4: aggregate_repairs returns exactly one AggregatedRepair per distinct
\* (complexity, anatomic_group) pair of its input (none for the empty list);
\* its total_length_cm is the sum of the lengths of the repairs with that
\* pair and its (code, wRVU) is get_repair_code of that sum, not of a single
\* repair's length: simple group_1 repairs of 2.5 cm and 3.0 cm give one
\* record of 5.5 cm with code 12002.
C4_OneRecordPerPair ==
    call.op = "aggregate_repairs" =>
        LET rs  == call.repairs
            out == call.ret
        IN  /\ Len(out) = Cardinality(PairsOf(rs))
            /\ rs = <<>> => out = <<>>
            /\ \A p \in PairsOf(rs) :
                  Cardinality({k \in 1..Len(out) :
                                  /\ out[k].complexity = p[1]
                                  /\ out[k].anatomic_group = p[2]}) = 1
            /\ \A k \in 1..Len(out) :
                  LET members == WithPair(rs, out[k].complexity,
                                          out[k].anatomic_group)
                  IN  /\ members # <<>>
                      /\ out[k].total_length_cm = SumOfLengths(members)
                      /\ <<out[k].code, out[k].wRVU>> =
                             get_repair_code(out[k].complexity,
                                             out[k].anatomic_group,
                                             SumOfLengths(members))
            /\ (/\ Len(rs) = 2
                /\ \A i \in 1..2 : /\ rs[i].complexity = "simple"
                                   /\ rs[i].anatomic_group = "GROUP_1"
                /\ rs[1].length_cm = Cm(25)
                /\ rs[2].length_cm = Cm(30))
                   => /\ Len(out) = 1
                      /\ out[1].total_length_cm = Cm(55)
                      /\ out[1].code = "12002"

\* The 2.5 cm and 3.0 cm simple trunk repairs, aggregated to 12002.
C4_Witness ==
    /\ call.op = "aggregate_repairs"
    /\ Len(call.repairs) = 2
    /\ \A i \in 1..2 : /\ call.repairs[i].complexity = "simple"
                       /\ call.repairs[i].anatomic_site = "trunk"
                       /\ call.repairs[i].anatomic_group = "GROUP_1"
    /\ call.repairs[1].length_cm = Cm(25)
    /\ call.repairs[2].length_cm = Cm(30)
    /\ call.ret[1].code = "12002"

\* The tier tables.
RepairTables ==
    {SimpleFaceCodes, SimpleTrunkCodes, IntermediateFaceCodes,
     IntermediateTrunkCodes, ComplexFaceCodes, ComplexTrunkCodes}

ExcisionTables ==
    {MalignantFaceCodes, MalignantTrunkCodes, BenignFaceCodes,
     BenignTrunkCodes}

StrictlyAscending(table) ==
    \A i \in 1..(Len(table) - 1) :
        FLe(table[i][1], table[i + 1][1]) /\ table[i][1] # table[i + 1][1]

\* The entries of a table whose bound is the smallest one >= value.
SmallestBoundAtLeast(value, table) ==
    {k \in 1..Len(table) :
        /\ FLe(value, table[k][1])
        /\ \A j \in 1..Len(table) :
              FLe(value, table[j][1]) => FLe(table[k][1], table[j][1])}

TierIs(value, table, ret) ==
    /\ Cardinality(SmallestBoundAtLeast(value, table)) = 1
    /\ \A k \in SmallestBoundAtLeast(value, table) :
          ret = <<table[k][2], table[k][3]>>
    /\ (\A j \in 1..(Len(table) - 1) : ~FLe(value, table[j][1]))
           => ret = <<table[Len(table)][2], table[Len(table)][3]>>

\* C5: get_repair_code and get_excision_code return the entry of the
\* selected table with the smallest upper bound >= the value (a value equal
\* to a bound selects that bound's tier), the last, open-ended entry when
\* the value exceeds every finite bound; every table's bounds are strictly
\* ascending, so exactly one entry qualifies.
C5_SmallestBoundTier ==
    /\ \A table \in RepairTables \cup ExcisionTables :
          StrictlyAscending(table)
    /\ call.op = "get_repair_code" =>
          TierIs(call.total_length_cm,
                 RepairTable(call.complexity, call.anatomic_group), call.ret)
    /\ call.op = "get_excision_code" =>
          TierIs(call.excised_diameter_cm,
                 ExcisionTable(call.anatomic_site, call.is_malignant),
                 call.ret)

\* A length exactly on the first bound of the simple trunk table.
C5_Witness ==
    /\ call.op = "get_repair_code"
    /\ call.complexity = "simple"
    /\ call.anatomic_group = "GROUP_1"
    /\ call.total_length_cm = Cm(25)
    /\ call.ret = <<"12001", 82>>

\* The reorderings of a list, and a list as the set of its entries.
Reorderings(rs) ==
    {[i \in 1..Len(rs) |-> rs[f[i]]] : f \in Permutations(1..Len(rs))}

AsSet(seq) == {seq[k] : k \in 1..Len(seq)}

AddOnUnits(length_cm) ==
    CHOOSE units \in 1..(MaxLenTenths \div 50 + 1) :
        /\ FLe(length_cm, Cm(50 + 50 * units))
        /\ \A fewer \in 1..(units - 1) : ~FLe(length_cm, Cm(50 + 50 * fewer))

\* C7: a complex group_1 repair longer than 5.0 cm is billed as the base
\* tier (13102, 4.25) plus one unit of the add-on 13120 (3.35) per
\* additional 5 cm, not as one code with one fixed wRVU.
C7_ComplexTrunkAddOnUnits ==
    (/\ call.op = "get_repair_code"
     /\ call.complexity = "complex"
     /\ call.anatomic_group = "GROUP_1"
     /\ ~FLe(call.total_length_cm, Cm(50)))
        => call.ret[2] = 425 + 335 * AddOnUnits(call.total_length_cm)

\* C8: every repair aggregate_repairs processes is aggregated under the
\* group that classify_anatomic_group gives for its anatomic_site.
C8_GroupDerivedFromSite ==
    call.op = "aggregate_repairs" =>
        \A i \in 1..Len(call.repairs) :
            LET repair == call.repairs[i]
            IN  /\ RepairKey(repair)[2] =
                       classify_anatomic_group(repair.anatomic_site)
                /\ \E k \in 1..Len(call.ret) :
                      /\ call.ret[k].complexity = repair.complexity
                      /\ call.ret[k].anatomic_group =
                             classify_anatomic_group(repair.anatomic_site)

\* The fifteen keywords of group_2.
Group2Keywords ==
    {"face", "ear", "eyelid", "nose", "lip", "cheek", "chin", "forehead",
     "temple", "periorbital", "perioral", "mucous", "vermilion", "nasal",
     "auricular"}

\* C9: classify_anatomic_group returns GROUP_2 exactly when the lower-cased
\* site contains one of the fifteen keywords as a substring, and GROUP_1
\* otherwise (the empty string and upper-case spellings included); it never
\* returns GROUP_3.
C9_ClassifyByKeyword ==
    call.op = "classify_anatomic_group" =>
        /\ Cardinality(Group2Keywords) = 15
        /\ call.ret \in {"GROUP_1", "GROUP_2"}
        /\ call.ret = "GROUP_2" <=>
               \E keyword \in Group2Keywords :
                   Contains(lower(call.site), keyword)
        /\ call.site = "" => call.ret = "GROUP_1"
        /\ call.site \in {"ear", "EAR", "Ear", "eAr", "upper LIP", "FACE"}
               => call.ret = "GROUP_2"
        /\ call.site \in {"era", "ERA", "trunk", "back"}
               => call.ret = "GROUP_1"

\* An upper-case site that matches a keyword only after lower-casing.
C9_Witness ==
    /\ call.op = "classify_anatomic_group"
    /\ call.site = "upper LIP"
    /\ call.ret = "GROUP_2"

\* C10: classify_anatomic_group("left nasal ala") is group_2 and
\* classify_anatomic_group("left forearm") is group_1.
C10_NasalAlaAndForearm ==
    call.op = "classify_anatomic_group" =>
        /\ call.site = "left nasal ala" => call.ret = "GROUP_2"
        /\ call.site = "left forearm" => call.ret = "GROUP_1"

\* The whole numbers of millimetres among the inputs, as floats.
WholeMm == 0..(MaxMmTenths \div 10)

WholeMmFloat == [mm \in WholeMm |-> Mm(10 * mm)]

\* C11: calculate_excised_diameter(lesion_diameter_mm, margin_mm) is the
\* lesion diameter plus the margin counted twice, converted once from
\* millimetres to centimetres after the sum: it is the float quotient by 10
\* of lesion + margin + margin; for whole numbers of millimetres it is the
\* float nearest to (lesion + 2 * margin) / 10, and for 8 mm and 3 mm it is
\* 1.4.
C11_ExcisedDiameterFormula ==
    call.op = "calculate_excised_diameter" =>
        /\ call.ret =
               FDivInt(FAdd(call.lesion_diameter_mm,
                            FAdd(call.margin_mm, call.margin_mm)), 10)
        /\ \A lesion \in WholeMm, margin \in WholeMm :
              (/\ call.lesion_diameter_mm = WholeMmFloat[lesion]
               /\ call.margin_mm = WholeMmFloat[margin])
                  => call.ret = FromRatio(lesion + 2 * margin, 10)
        /\ (/\ call.lesion_diameter_mm = WholeMmFloat[8]
            /\ call.margin_mm = WholeMmFloat[3])
               => call.ret = Cm(14)

\* The example: a lesion of 8 mm excised with a margin of 3 mm.
C11_Witness ==
    /\ call.op = "calculate_excised_diameter"
    /\ call.lesion_diameter_mm = Mm(80)
    /\ call.margin_mm = Mm(30)
    /\ call.ret = Cm(14)

\* The ten keywords of is_face.
FaceKeywords ==
    {"face", "ear", "eyelid", "nose", "lip", "cheek", "chin", "forehead",
     "temple", "periorbital"}

\* The codes of the four excision tables, by (is_malignant, is_face).
ExcisionCodes(is_malignant, face) ==
    IF is_malignant
    THEN IF face
         THEN {"11640", "11641", "11642", "11643", "11644", "11646"}
         ELSE {"11600", "11601", "11602", "11603", "11604", "11606"}
    ELSE IF face
         THEN {"11440", "11441", "11442", "11443", "11444", "11446"}
         ELSE {"11400", "11401", "11402", "11403", "11404", "11406"}

\* C12: get_excision_code selects one of four six-tier tables from
\* (is_malignant, is_face), where is_face holds iff the lower-cased site
\* contains one of the ten keywords; the returned code belongs to the
\* selected table and to no other, whatever the diameter and the site.
C12_ExcisionTableSelection ==
    call.op = "get_excision_code" =>
        LET face == \E keyword \in FaceKeywords :
                        Contains(lower(call.anatomic_site), keyword)
        IN  /\ Cardinality(FaceKeywords) = 10
            /\ \A m \in BOOLEAN, f \in BOOLEAN :
                  /\ Cardinality(ExcisionCodes(m, f)) = 6
                  /\ call.ret[1] \in ExcisionCodes(m, f)
                         <=> (m = call.is_malignant /\ f = face)

\* A malignant lesion of the lip, in capitals, of 1.5 cm: the face table.
C12_Witness ==
    /\ call.op = "get_excision_code"
    /\ call.anatomic_site = "upper LIP"
    /\ call.is_malignant
    /\ call.excised_diameter_cm = Cm(15)
    /\ call.ret[1] = "11642"

\* ceil(n / d) for n >= 0 and d > 0: the least number of groups of d that
\* hold n.
CeilDiv(n, d) == CHOOSE u \in 0..n : d * u >= n /\ d * (u - 1) < n

\* C13: for count >= 1, get_benign_destruction_codes returns, in the
\* wart/molluscum family, one flat line of 1 unit, 17110 when count < 15 and
\* 17111 when count >= 15; in the skin-tag family, the base line (11200,
\* 1 unit) alone when count <= 15, and when count > 15 the base line and one
\* 11201 line of ceil((count - 15) / 10) units (1 for 16..25, 2 for 26..35)
\* whose wRVU is the per-unit 0.28 times the units.
C13_BenignDestructionTiers ==
    (call.op = "get_benign_destruction_codes" /\ call.count >= 1) =>
        LET count == call.count
            ret   == call.ret
        IN  /\ call.is_wart_or_molluscum =>
                  /\ Len(ret) = 1
                  /\ ret[1][2] = 1
                  /\ ret[1][1] = (IF count < 15 THEN "17110" ELSE "17111")
            /\ ~call.is_wart_or_molluscum =>
                  /\ ret[1][1] = "11200" /\ ret[1][2] = 1
                  /\ count <= 15 => Len(ret) = 1
                  /\ count > 15 =>
                        /\ Len(ret) = 2
                        /\ ret[2][1] = "11201"
                        /\ ret[2][2] = CeilDiv(count - 15, 10)
                        /\ ret[2][3] = 28 * ret[2][2]
                  /\ (16 <= count /\ count <= 25) => ret[2][2] = 1
                  /\ (26 <= count /\ count <= 35) => ret[2][2] = 2

\* Twenty-six skin tags: the base code and two additional groups of ten.
C13_Witness ==
    /\ call.op = "get_benign_destruction_codes"
    /\ ~call.is_wart_or_molluscum
    /\ call.count = 26
    /\ call.ret = <<<<"11200", 1, 80>>, <<"11201", 2, 56>>>>

\* The first code, the add-on code and their per-unit wRVU, family by family
\* in the order shave, punch, incisional.
BiopsyFamilies ==
    <<[first |-> "11102", first_wRVU |-> 64,
       additional |-> "11103", additional_wRVU |-> 37],
      [first |-> "11104", first_wRVU |-> 81,
       additional |-> "11105", additional_wRVU |-> 44],
      [first |-> "11106", first_wRVU |-> 98,
       additional |-> "11107", additional_wRVU |-> 54]>>

\* The family a line belongs to.
FamilyOf(line) ==
    CHOOSE f \in 1..3 :
        line[1] \in {BiopsyFamilies[f].first, BiopsyFamilies[f].additional}

\* The lines of family f, in the order of the result.
FamilyLines(lines, f) ==
    SelectSeq(lines, LAMBDA line :
        line[1] \in {BiopsyFamilies[f].first, BiopsyFamilies[f].additional})

\* C14: get_biopsy_codes resolves the three families independently: a family
\* contributes no line when its count is <= 0, its first code with 1 unit
\* when its count is 1, and its first code with 1 unit followed by its
\* add-on code with count - 1 units and wRVU = per-unit wRVU x (count - 1)
\* when its count is > 1; the lines of a family are fixed by its own count,
\* and the result lists the families in the order shave, punch, incisional.
C14_BiopsyFamilies ==
    call.op = "get_biopsy_codes" =>
        LET counts == <<call.shave_count, call.punch_count,
                        call.incisional_count>>
            ret    == call.ret
        IN  /\ \A k \in 1..Len(ret) :
                  \E f \in 1..3 :
                      ret[k][1] \in {BiopsyFamilies[f].first,
                                     BiopsyFamilies[f].additional}
            /\ \A f \in 1..3 :
                  LET family == BiopsyFamilies[f]
                      lines  == FamilyLines(ret, f)
                  IN  /\ counts[f] <= 0 => lines = <<>>
                      /\ counts[f] = 1 =>
                            lines = <<<<family.first, 1, family.first_wRVU>>>>
                      /\ counts[f] > 1 =>
                            lines =
                                <<<<family.first, 1, family.first_wRVU>>,
                                  <<family.additional, counts[f] - 1,
                                    family.additional_wRVU
                                        * (counts[f] - 1)>>>>
            /\ \A i \in 1..Len(ret), j \in 1..Len(ret) :
                  i < j => FamilyOf(ret[i]) <= FamilyOf(ret[j])

\* Three shave, one punch and two incisional biopsies: five lines in family
\* order.
C14_Witness ==
    /\ call.op = "get_biopsy_codes"
    /\ call.shave_count = 3
    /\ call.punch_count = 1
    /\ call.incisional_count = 2
    /\ call.ret = <<<<"11102", 1, 64>>, <<"11103", 2, 74>>,
                    <<"11104", 1, 81>>,
                    <<"11106", 1, 98>>, <<"11107", 1, 54>>>>

\* C15: get_il_injection_code is a two-tier flat lookup without add-on: for a
\* performed injection (lesion_count >= 1) it returns exactly one code, 11900
\* when lesion_count <= 7 and 11901 when lesion_count > 7, and the wRVU is
\* that of the tier, whatever the count within the tier.
C15_IlInjectionTwoTiers ==
    (call.op = "get_il_injection_code" /\ call.lesion_count >= 1) =>
        /\ Len(call.ret) = 2
        /\ call.lesion_count <= 7 => call.ret = <<"11900", 51>>
        /\ call.lesion_count > 7 => call.ret = <<"11901", 78>>

\* Seven lesions, the last count of the lower tier.
C15_Witness ==
    /\ call.op = "get_il_injection_code"
    /\ call.lesion_count = 7
    /\ call.ret = <<"11900", 51>>

\* C16: check_ncci_edit is order-independent: the result for (code1, code2)
\* is the result for (code2, code1), and NCCI_BUNDLES holds no pair in both
\* orders with different decisions.
C16_NcciOrderIndependent ==
    call.op = "check_ncci_edit" =>
        /\ call.ret = check_ncci_edit(call.code2, call.code1)
        /\ \A pair \in DOMAIN NCCI_BUNDLES :
              <<pair[2], pair[1]>> \in DOMAIN NCCI_BUNDLES =>
                  NCCI_BUNDLES[<<pair[2], pair[1]>>] = NCCI_BUNDLES[pair]

\* A pair that the table holds in the other order only.
C16_Witness ==
    /\ call.op = "check_ncci_edit"
    /\ call.code1 = "17003"
    /\ call.code2 = "17000"
    /\ call.ret = "addon"

\* The rows of the fixed table, as the specification reads them: E/M with destruction
\* or biopsy asks for 25, a simple repair with a benign excision cannot be
\* unbundled, 17003 is the add-on of 17000.
NcciRows ==
    {<<em, procedure, "25">> :
         em \in {"99213", "99214", "99215"},
         procedure \in {"17000", "11102", "11104"}}
        \cup {<<"12001", "11400", None>>, <<"12001", "11401", None>>,
              <<"17000", "17003", "addon">>}

\* C17: check_ncci_edit returns a modifier string ("25"), "addon", None or
\* "ok" for every pair of code strings, unknown codes included; it returns
\* "ok" exactly when the table holds the pair in neither order;
\* check_ncci_edit("99214", "17000") is "25" and
\* check_ncci_edit("11102", "99202") is "ok".
C17_NcciResults ==
    call.op = "check_ncci_edit" =>
        LET listed == \E row \in NcciRows :
                          \/ row[1] = call.code1 /\ row[2] = call.code2
                          \/ row[1] = call.code2 /\ row[2] = call.code1
        IN  /\ call.ret \in {"25", "addon", None, "ok"}
            /\ call.ret = "ok" <=> ~listed
            /\ (call.code1 = "99214" /\ call.code2 = "17000")
                   => call.ret = "25"
            /\ (call.code1 = "11102" /\ call.code2 = "99202")
                   => call.ret = "ok"

\* The first example of the specification.
C17_Witness ==
    /\ call.op = "check_ncci_edit"
    /\ call.code1 = "99214"
    /\ call.code2 = "17000"
    /\ call.ret = "25"

\* The recognized E/M codes: 99202-99205 and 99211-99215.
RecognizedEM ==
    {"99202", "99203", "99204", "99205",
     "99211", "99212", "99213", "99214", "99215"}

\* C18: needs_modifier_25(em_code, procedure_codes) is true if and only if
\* em_code is a recognized E/M code and procedure_codes is not empty: the
\* NCCI rows do not change the result, and an unrecognized em_code gives
\* false whatever the procedures.
C18_Modifier25Rule ==
    call.op = "needs_modifier_25" =>
        call.ret = (/\ call.em_code \in RecognizedEM
                    /\ call.procedure_codes # <<>>)

\* An E/M code with procedures that have no NCCI row with it: the permissive
\* default.
C18_Witness ==
    /\ call.op = "needs_modifier_25"
    /\ call.em_code = "99212"
    /\ call.procedure_codes = <<"12001", "11200">>
    /\ call.ret = TRUE

\* The known modifiers and the names of their guidance records.
KnownModifierNames ==
    ("25" :> "Significant, Separately Identifiable E/M")
        @@ ("59" :> "Distinct Procedural Service")
        @@ ("XE" :> "Separate Encounter")
        @@ ("XS" :> "Separate Structure")
        @@ ("50" :> "Bilateral Procedure")

\* The modifier without its leading '-' characters: the suffix that does not
\* start with '-' and is preceded by '-' characters only.
Undashed(modifier) ==
    CHOOSE rest \in {SubSeq(modifier, k + 1, Len(modifier)) :
                         k \in 0..Len(modifier)} :
        /\ \A i \in 1..(Len(modifier) - Len(rest)) :
               SubSeq(modifier, i, i) = "-"
        /\ Len(rest) > 0 => SubSeq(rest, 1, 1) # "-"

\* C19: get_modifier_guidance returns a record for every modifier string: for
\* the known modifiers 25, 59, XE, XS and 50 their guidance record (name,
\* use_when, document, audit_risk); a leading '-' is ignored, so that
\* "-" followed by a modifier gives the record of that modifier ("-25" gives
\* the record of "25"); every other modifier gives the sentinel record whose
\* name is "Unknown".
C19_ModifierGuidance ==
    call.op = "get_modifier_guidance" =>
        LET key == Undashed(call.modifier)
        IN  /\ DOMAIN KnownModifierNames = {"25", "59", "XE", "XS", "50"}
            /\ "name" \in DOMAIN call.ret
            /\ key \in DOMAIN KnownModifierNames =>
                  /\ DOMAIN call.ret =
                         {"name", "use_when", "document", "audit_risk"}
                  /\ call.ret.name = KnownModifierNames[key]
            /\ key \notin DOMAIN KnownModifierNames =>
                  call.ret = [name |-> "Unknown", audit_risk |-> "Unknown"]
            /\ get_modifier_guidance("-" \o call.modifier) = call.ret
            /\ call.modifier = "-25" => call.ret = get_modifier_guidance("25")

\* The example: "-25" gives the record of modifier 25.
C19_Witness ==
    /\ call.op = "get_modifier_guidance"
    /\ call.modifier = "-25"
    /\ call.ret.name = "Significant, Separately Identifiable E/M"

\* The fixed vocabulary of chronic conditions.
ChronicVocabulary ==
    {"psoriasis", "eczema", "atopic dermatitis", "rosacea", "acne",
     "hidradenitis", "hidradenitis suppurativa", "alopecia", "vitiligo",
     "seborrheic dermatitis", "chronic urticaria", "lichen planus",
     "lichen sclerosus", "morphea", "scleroderma", "dermatomyositis",
     "lupus", "pemphigus", "pemphigoid", "epidermolysis bullosa",
     "ichthyosis", "xeroderma pigmentosum", "mycosis fungoides",
     "cutaneous lymphoma", "prurigo nodularis", "chronic pruritus"}

\* C20: is_g2211_eligible(diagnoses) is true if and only if at least one
\* diagnosis, lower-cased, contains a term of the chronic vocabulary as a
\* substring; it is false for the empty list, true for
\* ["chronic plaque psoriasis", "seasonal rhinitis"], false for
\* ["acute contact dermatitis, resolved"], and the list is after the call
\* what it was when passed.
C20_G2211Eligibility ==
    call.op = "is_g2211_eligible" =>
        /\ call.ret =
               \E i \in 1..Len(call.diagnoses) :
                   \E term \in ChronicVocabulary :
                       Contains(lower(call.diagnoses[i]), term)
        /\ call.diagnoses = <<>> => call.ret = FALSE
        /\ call.diagnoses = <<"chronic plaque psoriasis", "seasonal rhinitis">>
               => call.ret = TRUE
        /\ call.diagnoses = <<"acute contact dermatitis, resolved">>
               => call.ret = FALSE
        /\ diagnoses = call.diagnoses

\* A chronic condition in capitals after a diagnosis that is not chronic.
C20_Witness ==
    /\ call.op = "is_g2211_eligible"
    /\ call.diagnoses = <<"seasonal rhinitis", "Atopic Dermatitis">>
    /\ diagnoses = call.diagnoses
    /\ call.ret = TRUE

\* The wRVU of a code in the reference sheet, in hundredths: 0 for a code
\* the sheet does not hold and for an empty cell.
SheetHundredths(code) ==
    LET match == {i \in 1..Len(CPT_Codes) : CPT_Codes[i].Code = strip(code)}
    IN  IF match = {} THEN 0
        ELSE LET h == CPT_Codes[CHOOSE i \in match :
                                    \A j \in match : i <= j].wRVU
             IN  IF h = NaN THEN 0 ELSE h

\* The exact sum of wRVU x units x multiplier over the lines, in
\* two-hundredths (the multiplier 1.5 is 3 halves).
RECURSIVE ExactTwoHundredths(_)
ExactTwoHundredths(codes) ==
    IF codes = <<>> THEN 0
    ELSE LET line == codes[Len(codes)]
         IN  ExactTwoHundredths(SubSeq(codes, 1, Len(codes) - 1))
                 + SheetHundredths(line.code) * line.units
                       * (IF line.modifier = "50" THEN 3 ELSE 2)

\* The orders of n lines.
Orders(n) == {p \in [1..n -> 1..n] : \A i, j \in 1..n : p[i] = p[j] => i = j}

\* C21: calculate_total_wRVU returns, for every list of lines, the sum over
\* the lines of wRVU(code) x units x multiplier (1.5 for a line with the
\* bilateral modifier 50, 1 otherwise), and the total does not depend on the
\* order of the lines.
C21_TotalIsSumOfLines ==
    (call.op = "calculate_total_wRVU" /\ call.raised = None) =>
        LET codes == call.args[1]
        IN  /\ call.ret = FromRatio(ExactTwoHundredths(codes), 200)
            /\ \A p \in Orders(Len(codes)) :
                  calculate_total_wRVU(db, excel_file,
                      [i \in 1..Len(codes) |-> codes[p[i]]]).ret = call.ret

\* The sheet CPT_Codes holds no row for the code (as get_code reads it:
\* stripped of surrounding blanks).
Absent(code) == \A i \in 1..Len(CPT_Codes) : CPT_Codes[i].Code # strip(code)

\* The lines of a bill whose code the sheet holds.
RECURSIVE PresentLines(_)
PresentLines(codes) ==
    IF codes = <<>> THEN <<>>
    ELSE PresentLines(SubSeq(codes, 1, Len(codes) - 1))
             \o (IF Absent(codes[Len(codes)].code) THEN <<>>
                 ELSE <<codes[Len(codes)]>>)

\* C22: a miss of the reference provider is a value, not an error.  With the
\* reference table loaded, for a code the table does not hold get_code
\* returns None, get_wRVU 0.0, is_addon_code False and get_related_codes the
\* empty list; calculate_total_wRVU returns what it returns for the list
\* without the lines of such codes; none of them raises.
C22_MissIsAValue ==
    db._loaded =>
        /\ (call.op = "get_code" /\ Absent(call.args[1])) =>
               call.raised = None /\ call.ret = NoResponse
        /\ (call.op = "get_wRVU" /\ Absent(call.args[1])) =>
               call.raised = None /\ call.ret = FZero
        /\ (call.op = "is_addon_code" /\ Absent(call.args[1])) =>
               call.raised = None /\ call.ret = FALSE
        /\ (call.op = "get_related_codes" /\ Absent(call.args[1])) =>
               call.raised = None /\ call.ret = <<>>
        /\ call.op = "calculate_total_wRVU" =>
               /\ call.raised = None
               /\ call.ret = calculate_total_wRVU(db, excel_file,
                                 PresentLines(call.args[1])).ret

\* A total was computed over lines of which one has a code the table holds
\* and another a code it does not hold.
C22_Witness ==
    /\ db._loaded
    /\ call.op = "calculate_total_wRVU"
    /\ call.raised = None
    /\ call.ret # FZero
    /\ \E i, j \in 1..Len(call.args[1]) :
          Absent(call.args[1][i].code) /\ ~Absent(call.args[1][j].code)

Populated(self) ==
    /\ self._codes_df # None
    /\ self._modifiers_df # None
    /\ self._categories_df # None

Unset(self) ==
    /\ self._codes_df = None
    /\ self._modifiers_df = None
    /\ self._categories_df = None

\* C26 as stated: in every reachable state _loaded implies that the three
\* tables are populated; a load() that fails because the reference file is
\* missing leaves _loaded False and all three tables unset; and once
\* _loaded is True a further load() changes nothing.
C26_AsStated ==
    [][/\ db'._loaded => Populated(db')
       /\ (call'.op = "load" /\ call'.raised = "FileNotFoundError") =>
              ~db'._loaded /\ Unset(db')
       /\ (call'.op = "load" /\ db._loaded) =>
              db' = db /\ call'.raised = None]_vars

\* C26, amended: in every reachable state _loaded implies that the three
\* tables are populated; a load() that fails because the reference file is
\* missing leaves _loaded False and the three tables as they were before
\* the call; and once _loaded is True a further load() changes nothing.
C26_LoadedImpliesPopulated ==
    [][/\ db'._loaded => Populated(db')
       /\ (call'.op = "load" /\ call'.raised = "FileNotFoundError") =>
              ~db'._loaded /\ db' = db
       /\ (call'.op = "load" /\ db._loaded) =>
              db' = db /\ call'.raised = None]_vars

\* A load() has failed on a missing file after an earlier load had read
\* the first sheet of a workbook that lacks another.
C26_Witness ==
    /\ call.op = "load"
    /\ call.raised = "FileNotFoundError"
    /\ ~db._loaded
    /\ db._codes_df # None

\* C23: each lazily initialised singleton is initialised at most once even
\* when its accessor is called from several threads: at most one instance is
\* ever constructed and every caller receives that same instance; and
\* concurrent load() calls read the reference file at most once.
C23_InitializedAtMostOnce ==
    /\ \A accessor \in DOMAIN Accessors : constructed[accessor] <= 1
    /\ \A t1, t2 \in Threads :
          (/\ At(t1, "done") /\ At(t2, "done")
           /\ threads[t1].accessor = threads[t2].accessor) =>
              threads[t1].local = threads[t2].local
    /\ reads <= 1

StringLists == {"diagnoses", "procedures", "anatomic_sites", "medications"}

\* The positions of a list that hold the first occurrence of their entry,
\* ignoring case.
FirstOccurrences(items) ==
    {i \in 1..Len(items) :
        \A j \in 1..(i - 1) : lower(items[j]) # lower(items[i])}

\* The entries of a list at a set of positions, in the order of the list.
RECURSIVE Pick(_, _)
Pick(items, positions) ==
    IF positions = {} THEN <<>>
    ELSE LET last == CHOOSE i \in positions : \A j \in positions : j <= i
         IN  Append(Pick(items, positions \ {last}), items[last])

\* C24: merge_entities returns diagnoses, procedures, anatomic_sites and
\* medications in which no two entries are equal ignoring case, every entry
\* of either source has an entry equal to it ignoring case, and the order is
\* that of the model's entries followed by the pattern's with the first
\* occurrence kept; measurements are those of both sources, none removed;
\* time_documentation is the model's when it is non-empty, otherwise the
\* pattern's.
C24_MergeEntities ==
    call.op = "merge_entities" =>
        /\ \A list \in StringLists :
              LET both == call.llm_entities[list] \o call.regex_entities[list]
                  out  == call.ret[list]
              IN  /\ \A i, j \in 1..Len(out) :
                        lower(out[i]) = lower(out[j]) => i = j
                  /\ \A i \in 1..Len(both) :
                        \E k \in 1..Len(out) : lower(out[k]) = lower(both[i])
                  /\ out = Pick(both, FirstOccurrences(both))
        /\ call.ret.measurements =
               call.llm_entities.measurements
                   \o call.regex_entities.measurements
        /\ call.ret.time_documentation =
               IF call.llm_entities.time_documentation \notin {None, ""}
               THEN call.llm_entities.time_documentation
               ELSE call.regex_entities.time_documentation

\* A merge in which the pattern extraction repeats, in another case, a
\* diagnosis of the model, which has no time documentation of its own.
C24_Witness ==
    /\ call.op = "merge_entities"
    /\ call.llm_entities.diagnoses = <<"Acne", "wart">>
    /\ call.regex_entities.diagnoses = <<"acne", "Acne">>
    /\ call.ret.diagnoses = <<"Acne", "wart">>
    /\ call.llm_entities.time_documentation = ""
    /\ call.regex_entities.time_documentation = "30 min"
    /\ Len(call.ret.measurements) = 2

\* Lengths at and around the thresholds of the repair tables.
TierLengths ==
    {Cm(tenths) : tenths \in {0, 10, 11, 25, 26, 50, 51, 75, 76, 125, 200,
                              300}}

\* C27: for every complexity and anatomic group, the wRVU that
\* get_repair_code returns is non-decreasing in total_length_cm: no shorter
\* length gets a higher wRVU.
C27_RepairWrvuMonotone ==
    call.op = "get_repair_code" =>
        \A shorter \in TierLengths :
            FLe(shorter, call.total_length_cm) =>
                get_repair_code(call.complexity, call.anatomic_group,
                                shorter)[2] <= call.ret[2]

\* The keywords of classify_anatomic_group that get_excision_code lacks.
Group2OnlyKeywords == {"perioral", "mucous", "vermilion", "nasal", "auricular"}

\* get_excision_code treats the site as facial: the code it selects, for
\* either kind of lesion, is of a face table (1144x or 1164x).
SelectsFaceTable(site) ==
    \A is_malignant \in BOOLEAN :
        SubSeq(get_excision_code(Cm(5), site, is_malignant)[1], 1, 4)
            = (IF is_malignant THEN "1164" ELSE "1144")

\* C28: for every site string, if get_excision_code treats the site as
\* facial then classify_anatomic_group returns GROUP_2 for it; a site that is
\* GROUP_2 without being facial to get_excision_code contains one of
\* perioral, mucous, vermilion, nasal or auricular, and every site that
\* contains one of these and no keyword of get_excision_code is GROUP_2
\* without being facial.
C28_ClassifiersAgree ==
    call.op = "classify_anatomic_group" =>
        /\ SelectsFaceTable(call.site) => call.ret = "GROUP_2"
        /\ (call.ret = "GROUP_2" /\ ~SelectsFaceTable(call.site)) =>
               \E keyword \in Group2OnlyKeywords :
                   Contains(lower(call.site), keyword)
        /\ (/\ \E keyword \in Group2OnlyKeywords :
                   Contains(lower(call.site), keyword)
            /\ ~AnyIn(face_terms, lower(call.site))) =>
               call.ret = "GROUP_2" /\ ~SelectsFaceTable(call.site)

\* A site that is GROUP_2 by the keyword nasal alone and not facial to
\* get_excision_code.
C28_Witness ==
    /\ call.op = "classify_anatomic_group"
    /\ call.site = "left nasal ala"
    /\ call.ret = "GROUP_2"
    /\ ~SelectsFaceTable(call.site)

\* C29: every CurrentBilling that analyze_current_billing returns is
\* consistent: its total_wRVU is the sum over its codes of wRVU x units,
\* whatever total the response declares; on a failure of the call or of
\* parsing it has no codes, total 0 and a single documentation gap, which
\* describes the error.
C29_BillingConsistent ==
    call.op = "analyze_current_billing" =>
        /\ call.ret.total_wRVU = SumOfCodes(call.ret.codes)
        /\ call.response.kind # "json" =>
               /\ call.ret.codes = <<>>
               /\ call.ret.total_wRVU = 0
               /\ Len(call.ret.documentation_gaps) = 1
               /\ Contains(call.ret.documentation_gaps[1], "Error")

\* C30: extract_entities never propagates a failure of the model call or of
\* JSON parsing: when the call raises or the response does not parse, the
\* result is merge_entities of an empty entity set with
\* extract_entities_regex(note_text); when the model succeeds, every entry
\* the patterns extracted is represented in the result.
C30_ExtractionFallsBack ==
    call.op = "extract_entities" =>
        /\ call.raised = None
        /\ call.response.kind # "json" =>
               call.ret = merge_entities(NoEntities,
                              extract_entities_regex(call.note_text))
        /\ call.response.kind = "json" =>
               LET found == extract_entities_regex(call.note_text)
               IN  /\ \A list \in StringLists :
                         \A i \in 1..Len(found[list]) :
                             \E k \in 1..Len(call.ret[list]) :
                                 lower(call.ret[list][k])
                                     = lower(found[list][i])
                   /\ \A i \in 1..Len(found.measurements) :
                         \E k \in 1..Len(call.ret.measurements) :
                             call.ret.measurements[k] = found.measurements[i]

FourSteps ==
    <<"extract_entities", "analyze_current_billing", "identify_enhancements",
      "identify_opportunities">>

\* C25: when every LLM call succeeds and returns well-formed JSON, analyze
\* runs the four steps in order (entity extraction, current billing,
\* documentation enhancement, future opportunities), each after the
\* previous one has returned, and returns an AnalysisResult that carries the
\* output of all four; the call of step 3 matches the signature and the
\* return type of identify_enhancements.
C25_AnalyzeRunsFourSteps ==
    (/\ call.op = "analyze"
     /\ \A prompt \in DOMAIN call.responses :
           call.responses[prompt].kind = "json") =>
        /\ Len(Arguments.identify_enhancements)
               = Len(Parameters.identify_enhancements)
        /\ call.raised = None
        /\ call.steps = FourSteps
        /\ call.ret.original_note = call.note_text
        /\ call.ret.documentation_enhancements.type
               = "DocumentationEnhancements"
        /\ call.ret.future_opportunities =
               identify_opportunities(call.responses.opportunities)

====
